---- MODULE Spec2Model ----
(***************************************************************************)
(* The flasm virtual machine of flock: value specifiers, opcodes, the      *)
(* thread execution loop, the two memory regions, fork/join through the    *)
(* spawner's handle table, and the host's execute.                         *)
(*                                                                         *)
(* Every access to state shared between tasks (the spawn counter, the      *)
(* handle table and its mutex, the global memory behind its RwLock, the    *)
(* completion of a task) is one step of its own, so the interleavings of   *)
(* the multi-worker executor are the interleavings of these steps.  What   *)
(* a task does to its own ThreadState between two shared accesses is part  *)
(* of the step that follows it.                                            *)
(***************************************************************************)
EXTENDS Integers, Sequences, FiniteSets, TLC

\* Width of a Word in the model.  The code's Word is u64 (WORD_SIZE * 8 bits);
\* all operators below are written for a general width.
WordBits == 8

\* Most threads one process spawns (the root included).
MaxThreads == 4

WORD_SIZE == 8

WordModulus == 2 ^ WordBits

Word == 0 .. (WordModulus - 1)

\* The most significant bit of a Word: 1 << (WORD_SIZE * 8 - 1).
MSB == 2 ^ (WordBits - 1)

WrapWord(x) == x % WordModulus

to_global_add(addr) == (addr + MSB) % WordModulus

to_global(addr) == IF addr >= MSB THEN addr ELSE addr + MSB

----------------------------------------------------------------------------
\* Thread results, errors and panics.

NoResult == [kind |-> "None", val |-> 0, msg |-> ""]

Exit(code) == [kind |-> "Exit", val |-> code, msg |-> ""]

Finish(value) == [kind |-> "Finish", val |-> value, msg |-> ""]

Err(msg) == [kind |-> "Err", val |-> 0, msg |-> msg]

Panic(msg) == [kind |-> "Panic", val |-> 0, msg |-> msg]

ErrPop == "Pop from empty stack"
ErrPeek == "Peek empty stack"
ErrMisaligned == "Misaligned address"
ErrGlobalInState == "Attempted to access global address in state"
ErrJump == "Jump outside of program range"
ErrJoin == "Joined unknown thread"
ErrAssert == "Expected a to equal b"
ErrTaskPanicked == "task panicked"

----------------------------------------------------------------------------
\* Memory: a sparse map from Word keys to Words.

EmptyMemory == [k \in {} |-> 0]

MemoryGet(memory, key) == IF key \in DOMAIN memory THEN memory[key] ELSE 0

MemoryInsert(memory, key, value) ==
    [k \in (DOMAIN memory) \cup {key} |-> IF k = key THEN value ELSE memory[k]]

----------------------------------------------------------------------------
\* ThreadState.

ThreadStateNew == [stack |-> <<>>, memory |-> EmptyMemory, instruction_pointer |-> 0]

push(state, v) == [state EXCEPT !.stack = Append(@, v)]

\* Result of a fallible step on a ThreadState: the state it leaves, the value
\* it yields and, when it fails, the error or panic (fail.kind # "None").
Done(state, val) == [state |-> state, val |-> val, fail |-> NoResult]

Failed(state, fail) == [state |-> state, val |-> 0, fail |-> fail]

IsOk(r) == r.fail.kind = "None"

\* ThreadState::aligned_local: the key of a local address.
aligned_local(state, addr) ==
    IF addr % WORD_SIZE # 0 THEN Failed(state, Err(ErrMisaligned))
    ELSE IF addr >= MSB THEN Failed(state, Err(ErrGlobalInState))
    ELSE Done(state, addr \div WORD_SIZE)

state_read_memory(state, addr) ==
    LET a == aligned_local(state, addr)
    IN  IF IsOk(a) THEN Done(state, MemoryGet(state.memory, a.val)) ELSE a

state_write_memory(state, addr, value) ==
    LET a == aligned_local(state, addr)
    IN  IF IsOk(a)
        THEN Done([state EXCEPT !.memory = MemoryInsert(@, a.val, value)], 0)
        ELSE a

jump_to_inclusive(state, addr, program) ==
    IF addr <= Len(program)
    THEN Done([state EXCEPT !.instruction_pointer = addr], 0)
    ELSE Failed(state, Err(ErrJump))

jump_to_unchecked(state, addr, program) ==
    Done([state EXCEPT !.instruction_pointer = addr], 0)

jump_to(state, addr, program) ==
    IF addr < Len(program)
    THEN Done([state EXCEPT !.instruction_pointer = addr], 0)
    ELSE Failed(state, Err(ErrJump))

\* ThreadCtx::aligned: Local or Global by the top bit, after the alignment check.
aligned_global_unchecked(addr) ==
    IF addr % WORD_SIZE # 0 /\ addr < MSB
    THEN [ok |-> FALSE, global |-> FALSE, a |-> addr]
    ELSE [ok |-> TRUE, global |-> addr >= MSB, a |-> addr]

aligned(addr) ==
    IF addr % WORD_SIZE # 0 THEN [ok |-> FALSE, global |-> FALSE, a |-> addr]
    ELSE [ok |-> TRUE, global |-> addr >= MSB, a |-> addr]

----------------------------------------------------------------------------
VARIABLES
    ops,              \* Program.ops, the opcode vector (immutable after parse)
    rand_seed,        \* Spawner.rand
    peer_count,       \* Spawner.peers.len()
    overflow_checks,  \* whether the build checks integer overflow (debug) or wraps
    spawn_count,      \* Spawner.spawn_count
    tasks,            \* every ThreadCtx built so far, in the order of its spawn count
    threads,          \* Spawner.threads: thread id -> handle (the task's index)
    threads_lock,     \* the Mutex around Spawner.threads
    global_memory,    \* ProcessCtx.global_memory
    host,             \* HostCtx::execute: its position, its root id, its result
    write_log,        \* history: the global writes, in lock order
    last_read,        \* history: each task's latest global read
    join_log,         \* history: every Spawner::join that went through the table
    actor,            \* history: who took the latest step (0 is the host)
    vm_bytecode,      \* flock_vm: the ByteCode a Task runs
    vm_task,          \* flock_vm: the Task (program_counter, stack, forked)
    vm_execution,     \* flock_vm: what Task::run has returned, if it has
    vm_given          \* history: the Task as it was given to run

vm_vars == <<vm_bytecode, vm_task, vm_execution, vm_given>>

vars == <<ops, rand_seed, peer_count, overflow_checks, spawn_count, tasks, threads,
          threads_lock, global_memory, host, write_log, last_read, join_log, actor,
          vm_bytecode, vm_task, vm_execution, vm_given>>

----------------------------------------------------------------------------
\* Global memory behind the RwLock: one read or one write per lock acquisition.

global_get_default(memory, a) == 0

global_get(memory, a) == MemoryGet(memory, a)

global_insert_if_absent(memory, a, val) ==
    IF a \in DOMAIN memory THEN memory ELSE MemoryInsert(memory, a, val)

global_insert(memory, a, val) == MemoryInsert(memory, a, val)

\* ThreadCtx::read_memory.  reads lists the global reads performed.
read_memory(state, addr) ==
    LET al == aligned(addr)
    IN  IF ~al.ok
        THEN [state |-> state, val |-> 0, fail |-> Err(ErrMisaligned), reads |-> <<>>]
        ELSE IF al.global
        THEN LET v == global_get(global_memory, al.a)
             IN  [state |-> state, val |-> v, fail |-> NoResult,
                  reads |-> <<[addr |-> al.a, val |-> v]>>]
        ELSE LET r == state_read_memory(state, al.a)
             IN  [state |-> state, val |-> r.val, fail |-> r.fail, reads |-> <<>>]

\* ThreadCtx::write_memory.  memory is the global memory it leaves, writes the
\* global writes performed.
write_memory(state, addr, val) ==
    LET al == aligned(addr)
    IN  IF ~al.ok
        THEN [state |-> state, fail |-> Err(ErrMisaligned),
              memory |-> global_memory, writes |-> <<>>]
        ELSE IF al.global
        THEN [state |-> state, fail |-> NoResult,
              memory |-> global_insert(global_memory, al.a, val),
              writes |-> <<[addr |-> al.a, val |-> val]>>]
        ELSE LET w == state_write_memory(state, al.a, val)
             IN  [state |-> w.state, fail |-> w.fail,
                  memory |-> global_memory, writes |-> <<>>]

----------------------------------------------------------------------------
\* ValSp evaluation (ThreadCtx::get).

Literal(v) == [t |-> "Literal", v |-> v]
Pop == [t |-> "Pop"]
PopI(e) == [t |-> "PopI", e |-> e]
Peek == [t |-> "Peek"]
Memory(e) == [t |-> "Memory", e |-> e]
GlobalMemory(e) == [t |-> "GlobalMemory", e |-> e]
ThreadId == [t |-> "ThreadId"]

RemoveAt(s, i) == SubSeq(s, 1, i - 1) \o SubSeq(s, i + 1, Len(s))

\* stack.len() - i - 1 underflows usize when i >= len: with overflow checks the
\* subtraction panics, without them Vec::remove panics on the wrapped index.
PopIPanic ==
    IF overflow_checks
    THEN Panic("attempt to subtract with overflow")
    ELSE Panic("removal index out of bounds")

RECURSIVE get(_, _, _)
get(id, state, val_sp) ==
    CASE val_sp.t = "Literal" ->
            [state |-> state, val |-> val_sp.v, fail |-> NoResult, reads |-> <<>>]
      [] val_sp.t = "Pop" ->
            IF Len(state.stack) = 0
            THEN [state |-> state, val |-> 0, fail |-> Err(ErrPop), reads |-> <<>>]
            ELSE [state |-> [state EXCEPT !.stack = SubSeq(@, 1, Len(@) - 1)],
                  val |-> state.stack[Len(state.stack)],
                  fail |-> NoResult, reads |-> <<>>]
      [] val_sp.t = "PopI" ->
            LET i == get(id, state, val_sp.e)
                n == Len(i.state.stack)
                index == n - i.val - 1
            IN  IF ~IsOk(i) THEN i
                ELSE IF index < 0
                THEN [state |-> i.state, val |-> 0, fail |-> PopIPanic, reads |-> i.reads]
                ELSE [state |-> [i.state EXCEPT !.stack = RemoveAt(@, index + 1)],
                      val |-> i.state.stack[index + 1],
                      fail |-> NoResult, reads |-> i.reads]
      [] val_sp.t = "Peek" ->
            IF Len(state.stack) = 0
            THEN [state |-> state, val |-> 0, fail |-> Err(ErrPeek), reads |-> <<>>]
            ELSE [state |-> state, val |-> state.stack[Len(state.stack)],
                  fail |-> NoResult, reads |-> <<>>]
      [] val_sp.t = "Memory" ->
            LET addr == get(id, state, val_sp.e)
                r == read_memory(addr.state, addr.val)
            IN  IF ~IsOk(addr) THEN addr
                ELSE [r EXCEPT !.reads = addr.reads \o @]
      [] val_sp.t = "GlobalMemory" ->
            LET addr == get(id, state, val_sp.e)
                r == read_memory(addr.state, to_global(addr.val))
            IN  IF ~IsOk(addr) THEN addr
                ELSE [r EXCEPT !.reads = addr.reads \o @]
      [] val_sp.t = "ThreadId" ->
            [state |-> state, val |-> id, fail |-> NoResult, reads |-> <<>>]

\* ThreadCtx::get up to its next await on the global-memory lock: every read
\* of global memory takes and releases the RwLock by itself, so other threads
\* run between two global reads of one operand.  rest is what is left of the
\* operand, a Literal once it is evaluated.
RECURSIVE get_step(_, _, _)
get_step(id, state, val_sp) ==
    IF val_sp.t \in {"PopI", "Memory", "GlobalMemory"}
    THEN LET inner == get_step(id, state, val_sp.e)
             r == get(id, inner.state, [val_sp EXCEPT !.e = Literal(inner.val)])
         IN  IF ~IsOk(inner) THEN inner
             ELSE IF inner.reads # <<>>
             THEN [inner EXCEPT !.rest = [val_sp EXCEPT !.e = inner.rest]]
             ELSE r @@ [rest |-> Literal(r.val)]
    ELSE LET r == get(id, state, val_sp)
         IN  r @@ [rest |-> Literal(r.val)]

----------------------------------------------------------------------------
\* The opcode table (op_codes!): name -> number of ValSp operands.

OpNames ==
    {"DEBUG", "NOP", "PUSH", "LOAD", "JUMP", "FORK", "JOIN", "THREAD_FINISH",
     "EXIT", "STORE", "STORE_GLOBAL", "ADD", "SUB", "MUL", "DIV", "SHIFT_LEFT",
     "ASSERT_EQ", "JUMP_EQ"}

Arity(name) ==
    CASE name \in {"DEBUG"} -> 0
      [] name \in {"NOP", "PUSH", "LOAD", "JUMP", "FORK", "JOIN",
                   "THREAD_FINISH", "EXIT"} -> 1
      [] name \in {"STORE", "STORE_GLOBAL", "ADD", "SUB", "MUL", "DIV",
                   "SHIFT_LEFT", "ASSERT_EQ"} -> 2
      [] name \in {"JUMP_EQ"} -> 3

\* Word arithmetic: checked (a panic) or wrapping, as the build decides.
Arith(state, exact, what) ==
    IF exact \in Word THEN [state |-> push(state, exact), end |-> NoResult]
    ELSE IF overflow_checks
    THEN [state |-> state, end |-> Panic(what)]
    ELSE [state |-> push(state, WrapWord(exact)), end |-> NoResult]

Continue(state) ==
    [state |-> state, end |-> NoResult, memory |-> global_memory,
     reads |-> <<>>, writes |-> <<>>]

End(state, result) ==
    [state |-> state, end |-> result, memory |-> global_memory,
     reads |-> <<>>, writes |-> <<>>]

Local(r) ==
    [state |-> r.state, end |-> r.end, memory |-> global_memory,
     reads |-> <<>>, writes |-> <<>>]

\* The body of every opcode but FORK and JOIN, run on the evaluated operands a.
\* end is NoResult when the thread continues with the next opcode.
execute_body(name, a, state) ==
    CASE name \in {"NOP", "DEBUG"} -> Continue(state)
      [] name = "PUSH" -> Continue(push(state, a[1]))
      [] name \in {"STORE", "STORE_GLOBAL"} ->
            LET addr == IF name = "STORE_GLOBAL" THEN to_global(a[1]) ELSE a[1]
                w == write_memory(state, addr, a[2])
            IN  [state |-> w.state, end |-> w.fail, memory |-> w.memory,
                 reads |-> <<>>, writes |-> w.writes]
      [] name = "LOAD" ->
            LET r == read_memory(state, a[1])
            IN  [state |-> IF IsOk(r) THEN push(r.state, r.val) ELSE r.state,
                 end |-> r.fail, memory |-> global_memory,
                 reads |-> r.reads, writes |-> <<>>]
      [] name = "ADD" -> Local(Arith(state, a[1] + a[2], "attempt to add with overflow"))
      [] name = "SUB" ->
            Local(Arith(state, a[1] - a[2], "attempt to subtract with overflow"))
      [] name = "MUL" ->
            Local(Arith(state, a[1] * a[2], "attempt to multiply with overflow"))
      [] name = "DIV" ->
            IF a[2] = 0 THEN End(state, Panic("attempt to divide by zero"))
            ELSE Continue(push(state, a[1] \div a[2]))
      [] name = "SHIFT_LEFT" ->
            IF a[2] >= WordBits /\ overflow_checks
            THEN End(state, Panic("attempt to shift left with overflow"))
            ELSE Continue(push(state, WrapWord(a[1] * 2 ^ (a[2] % WordBits))))
      [] name = "JUMP" ->
            LET j == jump_to(state, a[1], ops)
            IN  [Continue(j.state) EXCEPT !.end = j.fail]
      [] name = "JUMP_EQ" ->
            IF a[1] = a[2]
            THEN LET j == jump_to(state, a[3], ops)
                 IN  [Continue(j.state) EXCEPT !.end = j.fail]
            ELSE Continue(state)
      [] name = "THREAD_FINISH" -> End(state, Finish(a[1]))
      [] name = "EXIT" -> End(state, Exit(a[1]))
      [] name = "ASSERT_EQ" ->
            IF a[1] = a[2] THEN Continue(state) ELSE End(state, Err(ErrAssert))

----------------------------------------------------------------------------
\* Program::parse on the relevant lines: label declarations and opcode lines
\* whose operands are ValSps or label references.

LabelDecl(name) == [label |-> name]
Op(name, args) == [op |-> name, args |-> args]
LabelRef(name) == [t |-> "Label", name |-> name]

IsLabelDecl(line) == "label" \in DOMAIN line

\* Pass one: label -> number of opcode lines seen before it.
RECURSIVE LabelPass(_, _, _)
LabelPass(lines, ops_seen, labels) ==
    IF lines = <<>> THEN [ok |-> TRUE, labels |-> labels, label |-> ""]
    ELSE IF IsLabelDecl(Head(lines))
    THEN IF Head(lines).label \in DOMAIN labels
         THEN [ok |-> FALSE, labels |-> labels, label |-> Head(lines).label]
         ELSE LabelPass(Tail(lines), ops_seen,
                        [l \in DOMAIN labels \cup {Head(lines).label} |->
                            IF l = Head(lines).label THEN ops_seen ELSE labels[l]])
    ELSE LabelPass(Tail(lines), ops_seen + 1, labels)

\* An error of the parse: the message and the name it is about.
ParseErr(msg, name) == [msg |-> msg, name |-> name]
NoParseErr == ParseErr("", "")

\* ValSp::parse of one operand; a label must have been declared.
RECURSIVE ValSpParse(_, _)
ValSpParse(s, labels) ==
    CASE s.t = "Label" ->
            IF s.name \in DOMAIN labels
            THEN [ok |-> TRUE, v |-> Literal(labels[s.name]), err |-> NoParseErr]
            ELSE [ok |-> FALSE, v |-> s, err |-> ParseErr("Unknown label", s.name)]
      [] s.t \in {"PopI", "Memory", "GlobalMemory"} ->
            LET e == ValSpParse(s.e, labels)
            IN  IF e.ok THEN [ok |-> TRUE, v |-> [s EXCEPT !.e = e.v], err |-> NoParseErr]
                ELSE e
      [] OTHER -> [ok |-> TRUE, v |-> s, err |-> NoParseErr]

\* OpCode::parse: the command must be in the opcode table, and its operands
\* are parsed in order, each one missing or failing to parse being an error;
\* operands beyond the declared ones are an error after that.
RECURSIVE ArgsParse(_, _, _, _)
ArgsParse(name, args, labels, k) ==
    IF k > Arity(name)
    THEN IF Len(args) > Arity(name)
         THEN [ok |-> FALSE, args |-> <<>>, err |-> ParseErr("Too many arguments to", name)]
         ELSE [ok |-> TRUE, args |-> <<>>, err |-> NoParseErr]
    ELSE IF k > Len(args)
    THEN [ok |-> FALSE, args |-> <<>>, err |-> ParseErr("Too few arguments to", name)]
    ELSE LET arg == ValSpParse(args[k], labels)
             rest == ArgsParse(name, args, labels, k + 1)
         IN  IF ~arg.ok THEN [ok |-> FALSE, args |-> <<>>, err |-> arg.err]
             ELSE IF ~rest.ok THEN rest
             ELSE [rest EXCEPT !.args = <<arg.v>> \o @]

OpCodeParse(line, labels) ==
    IF line.op \notin OpNames
    THEN [ok |-> FALSE, args |-> <<>>, err |-> ParseErr("Unknown command", line.op)]
    ELSE ArgsParse(line.op, line.args, labels, 1)

\* Pass two: the opcode lines in order; the first error ends the parse.
RECURSIVE OpPass(_, _)
OpPass(lines, labels) ==
    IF lines = <<>> THEN [ok |-> TRUE, ops |-> <<>>, err |-> NoParseErr]
    ELSE IF IsLabelDecl(Head(lines)) THEN OpPass(Tail(lines), labels)
    ELSE LET op == OpCodeParse(Head(lines), labels)
             rest == OpPass(Tail(lines), labels)
         IN  IF ~op.ok THEN [ok |-> FALSE, ops |-> <<>>, err |-> op.err]
             ELSE IF ~rest.ok THEN rest
             ELSE [rest EXCEPT
                     !.ops = <<[op |-> Head(lines).op, args |-> op.args]>> \o @]

\* Program::parse: Ok(Program { ops }) or the first error.
ProgramParse(lines) ==
    LET pass == LabelPass(lines, 0, [l \in {} |-> 0])
    IN  IF ~pass.ok THEN [ok |-> FALSE, ops |-> <<>>, err |-> ParseErr("Duplicate label", pass.label)]
        ELSE OpPass(lines, pass.labels)

----------------------------------------------------------------------------
\* The programs the model runs, as flasm lines.

\* Most seed the spawner's Rand is built with.
MaxSeed == 1

GlobalAddr(a) == MSB + a

\* S4: fork, join, finish with a value.
ProgForkJoin ==
    << Op("PUSH", <<Literal(6)>>),
       Op("STORE", <<Literal(8), Pop>>),
       Op("PUSH", <<Literal(2)>>),
       Op("FORK", <<LabelRef("child")>>),
       Op("JOIN", <<Pop>>),
       Op("EXIT", <<Pop>>),
       LabelDecl("child"),
       Op("STORE", <<Literal(8), Literal(9)>>),
       Op("NOP", <<Pop>>),
       Op("THREAD_FINISH", <<Memory(Literal(8))>>) >>

\* S5: the child exits, the parent joins it.
ProgExitJoined ==
    << Op("FORK", <<LabelRef("child")>>),
       Op("JOIN", <<Pop>>),
       Op("EXIT", <<Literal(0)>>),
       LabelDecl("child"),
       Op("EXIT", <<Literal(5)>>) >>

\* A grandchild exits and is joined by its parent, which the root never joins.
ProgExitUnjoined ==
    << Op("FORK", <<LabelRef("a")>>),
       Op("THREAD_FINISH", <<Literal(7)>>),
       LabelDecl("a"),
       Op("FORK", <<LabelRef("b")>>),
       Op("JOIN", <<Pop>>),
       Op("EXIT", <<Literal(0)>>),
       LabelDecl("b"),
       Op("EXIT", <<Literal(5)>>) >>

\* S6 extended: global writes by parent and child, read back after the join.
ProgGlobal ==
    << Op("STORE_GLOBAL", <<Literal(0), Literal(11)>>),
       Op("FORK", <<LabelRef("child")>>),
       Op("JOIN", <<Pop>>),
       Op("LOAD", <<Literal(GlobalAddr(0))>>),
       Op("ADD", <<Pop, Pop>>),
       Op("EXIT", <<Pop>>),
       LabelDecl("child"),
       Op("STORE", <<Literal(GlobalAddr(0)), Literal(12)>>),
       Op("STORE_GLOBAL", <<Literal(8), GlobalMemory(Literal(0))>>),
       Op("STORE_GLOBAL", <<Literal(0), Literal(13)>>),
       Op("THREAD_FINISH", <<GlobalMemory(Literal(16))>>) >>

\* The same id joined twice, then an id no spawn returned.
ProgJoinTwice ==
    << Op("FORK", <<LabelRef("child")>>),
       Op("JOIN", <<Peek>>),
       Op("NOP", <<Pop>>),
       Op("JOIN", <<Pop>>),
       LabelDecl("child"),
       Op("THREAD_FINISH", <<Literal(3)>>) >>

\* The child joins the id on top of its stack, its parent's: it races the host.
ProgJoinParent ==
    << Op("FORK", <<LabelRef("child")>>),
       Op("THREAD_FINISH", <<Literal(4)>>),
       LabelDecl("child"),
       Op("JOIN", <<Pop>>),
       Op("EXIT", <<Pop>>) >>

\* An id no spawn returned.
ProgJoinUnknown ==
    << Op("JOIN", <<Literal(1)>>),
       Op("EXIT", <<Literal(2)>>) >>

\* S1, S7 and falling off the end of the program.
ProgArith ==
    << Op("PUSH", <<Literal(40)>>),
       Op("PUSH", <<Literal(2)>>),
       Op("ADD", <<Pop, Pop>>),
       Op("JUMP", <<LabelRef("tgt")>>),
       Op("EXIT", <<Literal(1)>>),
       LabelDecl("tgt"),
       Op("DEBUG", <<>>),
       Op("ASSERT_EQ", <<Peek, Literal(42)>>) >>

\* The root and its first child both fork at :y, concurrently.
ProgForkBoth ==
    << Op("FORK", <<LabelRef("x")>>),
       LabelDecl("x"),
       Op("FORK", <<LabelRef("y")>>),
       Op("JOIN", <<Pop>>),
       LabelDecl("y"),
       Op("THREAD_FINISH", <<Pop>>) >>

\* The child panics in an indexed pop past the bottom of its stack; the parent
\* joins it.
ProgChildPanics ==
    << Op("FORK", <<LabelRef("child")>>),
       Op("JOIN", <<Pop>>),
       Op("EXIT", <<Literal(0)>>),
       LabelDecl("child"),
       Op("NOP", <<PopI(Literal(1))>>) >>

\* Operands that pop: SUB $pop, $pop and an indexed pop whose index is popped.
ProgOperands ==
    << Op("PUSH", <<Literal(3)>>),
       Op("PUSH", <<Literal(10)>>),
       Op("SUB", <<Pop, Pop>>),
       Op("PUSH", <<Literal(20)>>),
       Op("PUSH", <<Literal(1)>>),
       Op("ADD", <<PopI(Pop), Pop>>),
       Op("EXIT", <<Pop>>) >>

\* An indexed pop past the bottom of the root's stack.
ProgPopIOut ==
    << Op("PUSH", <<Literal(5)>>),
       Op("PUSH", <<PopI(Literal(1))>>),
       Op("EXIT", <<Pop>>) >>

\* A sum, a difference and a product outside the Word range, one per thread.
ProgOverflow ==
    << Op("FORK", <<LabelRef("sub")>>),
       Op("FORK", <<LabelRef("mul")>>),
       Op("ADD", <<Literal(WordModulus - 1), Literal(1)>>),
       Op("EXIT", <<Pop>>),
       LabelDecl("sub"),
       Op("SUB", <<Literal(3), Literal(10)>>),
       Op("THREAD_FINISH", <<Pop>>),
       LabelDecl("mul"),
       Op("MUL", <<Literal(MSB), Literal(2)>>),
       Op("THREAD_FINISH", <<Pop>>) >>

\* Jumps: not taken with a target out of range, taken in range, taken to a
\* label declared after the last opcode, taken out of range.
ProgJumps ==
    << Op("JUMP_EQ", <<Literal(1), Literal(2), Literal(200)>>),
       Op("JUMP_EQ", <<Literal(3), Literal(3), LabelRef("ok")>>),
       Op("EXIT", <<Literal(1)>>),
       LabelDecl("ok"),
       Op("FORK", <<LabelRef("eq")>>),
       Op("JUMP", <<LabelRef("end")>>),
       LabelDecl("eq"),
       Op("JUMP_EQ", <<Literal(4), Literal(4), Literal(200)>>),
       LabelDecl("end") >>

\* A fork to a label declared after the last opcode.
ProgForkOut ==
    << Op("PUSH", <<Literal(1)>>),
       Op("STORE", <<Literal(8), Literal(7)>>),
       Op("FORK", <<LabelRef("end")>>),
       Op("EXIT", <<Literal(0)>>),
       LabelDecl("end") >>

\* Misaligned stores and a misaligned load, local and global, one per thread.
ProgMisalignedStore ==
    << Op("STORE", <<Literal(8), Literal(7)>>),
       Op("STORE_GLOBAL", <<Literal(0), Literal(6)>>),
       Op("FORK", <<LabelRef("a")>>),
       Op("FORK", <<LabelRef("b")>>),
       Op("FORK", <<LabelRef("c")>>),
       Op("STORE", <<Literal(12), Literal(1)>>),
       LabelDecl("a"),
       Op("STORE_GLOBAL", <<Literal(4), Literal(1)>>),
       LabelDecl("b"),
       Op("STORE", <<Literal(GlobalAddr(4)), Literal(1)>>),
       LabelDecl("c"),
       Op("LOAD", <<Literal(GlobalAddr(1))>>) >>

\* Misaligned reads through LOAD, $mem and $gmem, one per thread.
ProgMisalignedLoad ==
    << Op("STORE", <<Literal(8), Literal(7)>>),
       Op("STORE_GLOBAL", <<Literal(0), Literal(6)>>),
       Op("FORK", <<LabelRef("a")>>),
       Op("FORK", <<LabelRef("b")>>),
       Op("LOAD", <<Literal(9)>>),
       LabelDecl("a"),
       Op("NOP", <<Memory(Literal(3))>>),
       LabelDecl("b"),
       Op("NOP", <<GlobalMemory(Literal(5))>>) >>

\* The root joins its child, which forks and joins a child of its own.
ProgNested ==
    << Op("FORK", <<LabelRef("a")>>),
       Op("JOIN", <<Pop>>),
       Op("EXIT", <<Pop>>),
       LabelDecl("a"),
       Op("FORK", <<LabelRef("b")>>),
       Op("JOIN", <<Pop>>),
       Op("THREAD_FINISH", <<Pop>>),
       LabelDecl("b"),
       Op("THREAD_FINISH", <<Literal(3)>>) >>

\* The child fails an ASSERT_EQ; the root joins it.
ProgChildFails ==
    << Op("PUSH", <<Literal(1)>>),
       Op("FORK", <<LabelRef("child")>>),
       Op("JOIN", <<Pop>>),
       Op("EXIT", <<Literal(0)>>),
       LabelDecl("child"),
       Op("NOP", <<Pop>>),
       Op("ASSERT_EQ", <<Pop, Literal(2)>>),
       Op("THREAD_FINISH", <<Literal(3)>>) >>

\* The root pops from its empty stack.
ProgPopEmpty ==
    << Op("PUSH", <<Pop>>),
       Op("EXIT", <<Literal(0)>>) >>

\* The label :end is declared after the last opcode: the child jumps to it,
\* the root reaches the same position by running past the last opcode.
ProgLabelEnd ==
    << Op("FORK", <<LabelRef("c")>>),
       Op("JUMP", <<LabelRef("skip")>>),
       LabelDecl("c"),
       Op("JUMP", <<LabelRef("end")>>),
       LabelDecl("skip"),
       Op("PUSH", <<Literal(1)>>),
       LabelDecl("end") >>

\* Two threads each read global address 0, add 1 and write the sum back,
\* starting from 5; the root reads the final value after joining the other.
ProgLostUpdate ==
    << Op("STORE_GLOBAL", <<Literal(0), Literal(5)>>),
       Op("FORK", <<LabelRef("inc")>>),
       Op("ADD", <<GlobalMemory(Literal(0)), Literal(1)>>),
       Op("STORE_GLOBAL", <<Literal(0), Pop>>),
       Op("JOIN", <<Pop>>),
       Op("EXIT", <<GlobalMemory(Literal(0))>>),
       LabelDecl("inc"),
       Op("ADD", <<GlobalMemory(Literal(0)), Literal(1)>>),
       Op("STORE_GLOBAL", <<Literal(0), Pop>>),
       Op("THREAD_FINISH", <<Literal(0)>>) >>

\* The root joins its child and the child joins the id FORK pushed for it,
\* its parent's.
ProgJoinCycle ==
    << Op("FORK", <<LabelRef("c")>>),
       Op("JOIN", <<Pop>>),
       Op("EXIT", <<Pop>>),
       LabelDecl("c"),
       Op("JOIN", <<Pop>>),
       Op("THREAD_FINISH", <<Literal(1)>>) >>

\* A global read whose address is itself read from global memory, while
\* another thread writes both addresses.
ProgNestedRead ==
    << Op("FORK", <<LabelRef("w")>>),
       Op("THREAD_FINISH", <<GlobalMemory(GlobalMemory(Literal(0)))>>),
       LabelDecl("w"),
       Op("STORE_GLOBAL", <<Literal(0), Literal(8)>>),
       Op("STORE_GLOBAL", <<Literal(8), Literal(5)>>) >>

Programs ==
    << ProgForkJoin, ProgExitJoined, ProgExitUnjoined, ProgGlobal,
       ProgJoinTwice, ProgJoinParent, ProgJoinUnknown, ProgArith,
       ProgForkBoth, ProgChildPanics, ProgOperands, ProgPopIOut,
       ProgOverflow, ProgJumps, ProgForkOut, ProgMisalignedStore,
       ProgMisalignedLoad, ProgNested, ProgChildFails, ProgPopEmpty,
       ProgLabelEnd, ProgLostUpdate, ProgJoinCycle, ProgNestedRead >>

\* The Programs HostCtx::execute can be given: those that parse.
ParsedPrograms ==
    {ProgramParse(Programs[i]).ops :
        i \in {k \in 1 .. Len(Programs) : ProgramParse(Programs[k]).ok}}

----------------------------------------------------------------------------
\* The spawner.

\* Rand::get("thread_id").get(count).word(): seahash of the big-endian bytes
\* of seahash(seed bytes, "thread_id") followed by the decimal digits of the
\* spawn count.  The 64-bit values for seeds 0..3 (rows) and counts 0..6
\* (columns) are tabulated modulo 246: a multiple of 6, so that the id modulo
\* 1, 2 or 3 locations is the code's, and a modulus under which the ids of one
\* seed stay distinct, as the 64-bit ones are.
ThreadIdTable ==
    << <<29, 157, 94, 108, 37, 148, 55>>,
       <<214, 52, 93, 20, 41, 104, 180>>,
       <<231, 170, 140, 35, 122, 212, 221>>,
       <<58, 16, 171, 152, 143, 73, 202>> >>

thread_id(seed, count) == ThreadIdTable[seed + 1][count + 1]

NoRead == [some |-> FALSE, addr |-> 0, val |-> 0, at |-> 0, joined |-> {}]

\* A ThreadCtx (id, state) and where its task stands.  parent, joined and
\* start (the state in which the current opcode was fetched) are history.
\* No operand is half evaluated.
NoPartial == [some |-> FALSE, e |-> Literal(0)]

NewTask_running(id, state, parent) ==
    [id |-> id, state |-> state, pc |-> "fetch", cur |-> 0, vals |-> <<>>,
     partial |-> NoPartial, result |-> NoResult, child |-> 0, handle |-> 0,
     parent |-> parent, joined |-> {}, start |-> state]

NewTask(id, state, parent) ==
    [id |-> id, state |-> state, pc |-> "created", cur |-> 0, vals |-> <<>>,
     partial |-> NoPartial, result |-> NoResult, child |-> 0, handle |-> 0,
     parent |-> parent, joined |-> {}, start |-> state]

Unlocked == [held |-> FALSE, by |-> 0]

LockedBy(caller) == [held |-> TRUE, by |-> caller]

\* (thread_id as usize) % locations
Location(id) == id % (peer_count + 1)

MapKeep(map, key) == map

MapRemove(map, key) == [k \in (DOMAIN map) \ {key} |-> map[k]]

\* What `handle.await??` gives the joiner once the task has ended: the task's
\* Ok result or its error; a panicked task is a JoinError.
join_result(result) ==
    IF result.kind = "Panic" THEN Err(ErrTaskPanicked) ELSE result

\* Awaiting a JoinHandle: ready once the task has returned.
handle_await_early(h) ==
    [ready |-> TRUE,
     result |-> IF tasks[h].result.kind = "None" THEN Finish(0)
                ELSE join_result(tasks[h].result)]

handle_await(h) ==
    [ready |-> tasks[h].result.kind # "None",
     result |-> join_result(tasks[h].result)]

\* A task owns its ThreadCtx: a step of task p replaces p's record only.
task_update_shared(ts, p, rec) ==
    [t \in DOMAIN ts |->
        IF t = p THEN rec
        ELSE IF t = ts[p].parent
        THEN [ts[t] EXCEPT !.state.memory = rec.state.memory]
        ELSE ts[t]]

task_update(ts, p, rec) == [ts EXCEPT ![p] = rec]

TaskEnd(task, state, result) ==
    [task EXCEPT !.state = state, !.result = result, !.pc = "done"]

----------------------------------------------------------------------------
\* flock_vm: the numeric bytecode (src/flock_vm/src/task.rs).  i64 and
\* usize/u64 are scaled to WordBits bits like Word.

VmInt == (0 - MSB) .. (MSB - 1)

\* Two's-complement wrap of an integer into VmInt (overflowing_add(..).0).
WrapInt(x) == ((x + MSB) % WordModulus) - MSB

\* `v as usize` / `v as u64` of a signed value.
as_usize(v) == IF v < 0 THEN WordModulus + v ELSE v

\* usize::checked_sub; None is -1.
checked_sub(a, b) == IF b > a THEN 0 - 1 ELSE a - b

\* ConditionFlags: a set of the asserted flags (EMPTY is {}).
ZERO == "ZERO"
FORK == "FORK"
ConditionFlags == SUBSET {ZERO, FORK}

\* Option<i64> of Jump and JumpToSubroutine.
NoTarget == [some |-> FALSE, t |-> 0]
SomeTarget(t) == [some |-> TRUE, t |-> t]

\* OpCode values.
VmOp(code, arg) == [code |-> code, arg |-> arg]
OpPush(v) == VmOp("Push", v)
OpAdd == VmOp("Add", 0)
OpDumpDebug == VmOp("DumpDebug", 0)
OpJump(flags, target) == VmOp("Jump", [flags |-> flags, target |-> target])
OpJumpToSubroutine(target) == VmOp("JumpToSubroutine", target)
OpBury(index) == VmOp("Bury", index)
OpDredge(index) == VmOp("Dredge", index)
OpDuplicate == VmOp("Duplicate", 0)
OpReturn == VmOp("Return", 0)
OpPop == VmOp("Pop", 0)
OpFork == VmOp("Fork", 0)
OpJoin(count) == VmOp("Join", count)
OpHalt == VmOp("Halt", 0)
OpStore(addr) == VmOp("Store", addr)
OpLoad(addr) == VmOp("Load", addr)
OpStoreRelative(base) == VmOp("StoreRelative", base)
OpLoadRelative(base) == VmOp("LoadRelative", base)
OpPanic == VmOp("Panic", 0)

\* Execution and ExecutionError values.
Execution(what, a, b) == [what |-> what, a |-> a, b |-> b]
Terminated == Execution("Terminated", 0, 0)
ExecutionFork == Execution("Fork", 0, 0)
ExecutionJoin(task_id, count) == Execution("Join", task_id, count)
ExecutionStore(addr, value) == Execution("Store", addr, value)
ExecutionLoad(addr) == Execution("Load", addr, 0)
PopFromEmptyStack == Execution("PopFromEmptyStack", 0, 0)
PeekFromEmptyStack == Execution("PeekFromEmptyStack", 0, 0)
DredgeOutOfRange(index) == Execution("DredgeOutOfRange", index, 0)
BuryOutOfRange(index) == Execution("BuryOutOfRange", index, 0)
ExplicitPanic == Execution("ExplicitPanic", 0, 0)
VmPanicked == Execution("panicked", 0, 0)

\* Task::new.
VmTaskNew == [program_counter |-> 0, stack |-> <<>>, forked |-> FALSE]

\* What one tick gives: Ok(Continue), Ok(Return(execution)), Err(error), or
\* a panic of the thread running the task.
VmContinue(task) == [task |-> task, flow |-> "Continue", out |-> Terminated]
VmReturn(task, execution) == [task |-> task, flow |-> "Return", out |-> execution]
VmErr(task, error) == [task |-> task, flow |-> "Err", out |-> error]
VmPanic(task) == [task |-> task, flow |-> "Panic", out |-> VmPanicked]

task_push(task, v) == [task EXCEPT !.stack = Append(@, v)]

\* Task::pop.
task_pop(task) ==
    IF Len(task.stack) = 0
    THEN [ok |-> FALSE, task |-> task, value |-> 0]
    ELSE [ok |-> TRUE,
          task |-> [task EXCEPT !.stack = SubSeq(@, 1, Len(@) - 1)],
          value |-> task.stack[Len(task.stack)]]

\* Task::peek: stack.get(len - 1); on an empty stack len - 1 underflows,
\* which panics with overflow checks and wraps to an absent index without.
task_peek(task) ==
    IF Len(task.stack) = 0
    THEN IF overflow_checks
         THEN [kind |-> "Panic", value |-> 0]
         ELSE [kind |-> "Err", value |-> 0]
    ELSE [kind |-> "Ok", value |-> task.stack[Len(task.stack)]]

\* BoolImplies::implies.
implies(self, other) == IF self THEN other ELSE TRUE

\* The optional operand of Jump and JumpToSubroutine: popped when absent.
take_target(task, target) ==
    IF target.some
    THEN [ok |-> TRUE, task |-> task, value |-> target.t]
    ELSE task_pop(task)

\* OpCode::Jump.  peek()? is an argument of implies, so it is evaluated
\* whatever the flags are.
tick_jump(task, flags, target) ==
    LET tg == take_target(task, target)
        top == task_peek(tg.task)
        zero == implies(ZERO \in flags, top.value = 0)
        forked == implies(FORK \in flags, tg.task.forked)
        should_jump == zero /\ forked
    IN  IF ~tg.ok THEN VmErr(tg.task, PopFromEmptyStack)
        ELSE IF top.kind = "Panic" THEN VmPanic(tg.task)
        ELSE IF top.kind = "Err" THEN VmErr(tg.task, PeekFromEmptyStack)
        ELSE IF should_jump
        THEN VmContinue([tg.task EXCEPT !.program_counter = as_usize(tg.value)])
        ELSE VmContinue(tg.task)

\* Vec::insert at a 0-based index.
InsertAt(s, i, v) == SubSeq(s, 1, i) \o <<v>> \o SubSeq(s, i + 1, Len(s))

\* OpCode::Bury: where the popped value goes, from the length after the pop.
bury_insert_index_short(len, index) == checked_sub(len - 1, as_usize(index))

bury_insert_index(len, index) == checked_sub(len, as_usize(index))

\* OpCode::Bury.
tick_bury(task, index) ==
    LET v == task_pop(task)
        insert_index == bury_insert_index(Len(v.task.stack), index)
    IN  IF ~v.ok THEN VmErr(v.task, PopFromEmptyStack)
        ELSE IF insert_index < 0 THEN VmErr(v.task, BuryOutOfRange(index))
        ELSE VmContinue([v.task EXCEPT
                            !.stack = InsertAt(@, insert_index, v.value)])

\* OpCode::Dredge.  On an empty stack len - 1 underflows: a panic with
\* overflow checks, and without them an index past the end given to
\* Vec::remove, which panics too.
tick_dredge(task, index) ==
    LET len == Len(task.stack)
        remove_index == checked_sub(len - 1, as_usize(index))
    IN  IF len = 0 THEN VmPanic(task)
        ELSE IF remove_index < 0 THEN VmErr(task, DredgeOutOfRange(index))
        ELSE VmContinue([task EXCEPT
                            !.stack = Append(RemoveAt(@, remove_index + 1),
                                             @[remove_index + 1])])

\* OpCode::Add.
tick_add(task) ==
    LET a == task_pop(task)
        b == task_pop(a.task)
    IN  IF ~a.ok THEN VmErr(a.task, PopFromEmptyStack)
        ELSE IF ~b.ok THEN VmErr(b.task, PopFromEmptyStack)
        ELSE VmContinue(task_push(b.task, WrapInt(a.value + b.value)))

\* OpCode::StoreRelative.
tick_store_relative(task, base) ==
    LET offset == task_pop(task)
        addr == (base + as_usize(offset.value)) % WordModulus
        value == task_pop(offset.task)
    IN  IF ~offset.ok THEN VmErr(offset.task, PopFromEmptyStack)
        ELSE IF ~value.ok THEN VmErr(value.task, PopFromEmptyStack)
        ELSE VmReturn(value.task, ExecutionStore(addr, value.value))

\* Task::tick.
tick(task0, bytecode) ==
    IF task0.program_counter >= Len(bytecode)
    THEN VmReturn(task0, Terminated)
    ELSE
    LET op == bytecode[task0.program_counter + 1]
        task == [task0 EXCEPT !.program_counter = @ + 1]
        v == task_pop(task)
    IN  CASE op.code = "Push" -> VmContinue(task_push(task, op.arg))
          [] op.code = "Add" -> tick_add(task)
          [] op.code = "DumpDebug" -> VmContinue(task)
          [] op.code = "Jump" -> tick_jump(task, op.arg.flags, op.arg.target)
          [] op.code = "JumpToSubroutine" ->
                LET tg == take_target(task, op.arg)
                IN  IF ~tg.ok THEN VmErr(tg.task, PopFromEmptyStack)
                    ELSE VmContinue(
                           [task_push(tg.task, tg.task.program_counter)
                              EXCEPT !.program_counter = as_usize(tg.value)])
          [] op.code = "Bury" -> tick_bury(task, op.arg)
          [] op.code = "Dredge" -> tick_dredge(task, op.arg)
          [] op.code = "Duplicate" ->
                IF ~v.ok THEN VmErr(v.task, PopFromEmptyStack)
                ELSE VmContinue(task_push(task_push(v.task, v.value), v.value))
          [] op.code = "Pop" ->
                IF ~v.ok THEN VmErr(v.task, PopFromEmptyStack)
                ELSE VmContinue(v.task)
          [] op.code = "Return" ->
                IF ~v.ok THEN VmErr(v.task, PopFromEmptyStack)
                ELSE VmContinue([v.task EXCEPT
                                   !.program_counter = as_usize(v.value)])
          [] op.code = "Fork" -> VmReturn(task, ExecutionFork)
          [] op.code = "Join" ->
                IF ~v.ok THEN VmErr(v.task, PopFromEmptyStack)
                ELSE VmReturn(v.task, ExecutionJoin(as_usize(v.value),
                                                    as_usize(op.arg)))
          [] op.code = "Halt" -> VmReturn(task, Terminated)
          [] op.code = "Store" ->
                IF ~v.ok THEN VmErr(v.task, PopFromEmptyStack)
                ELSE VmReturn(v.task, ExecutionStore(op.arg, v.value))
          [] op.code = "StoreRelative" -> tick_store_relative(task, op.arg)
          [] op.code = "Load" -> VmReturn(task, ExecutionLoad(op.arg))
          [] op.code = "LoadRelative" ->
                IF ~v.ok THEN VmErr(v.task, PopFromEmptyStack)
                ELSE VmReturn(v.task,
                       ExecutionLoad((op.arg + as_usize(v.value)) % WordModulus))
          [] op.code = "Panic" -> VmErr(task, ExplicitPanic)

\* Task::run has not been called, or is still ticking.
VmRunning == [kind |-> "Running", out |-> Terminated]

\* The numeric VM is not in use while a flasm program runs.
VmIdle ==
    /\ vm_bytecode = <<>>
    /\ vm_task = VmTaskNew
    /\ vm_execution = VmRunning
    /\ vm_given = VmTaskNew

----------------------------------------------------------------------------
\* Initial state: HostCtx::execute is about to spawn the root thread of a
\* parsed program; the spawner is new (count 0, empty table) and its Peers are
\* Peers::new(), the only ones the program can build: none.

Init ==
    /\ ops \in ParsedPrograms
    /\ rand_seed \in 0 .. MaxSeed
    /\ peer_count = 0
    /\ overflow_checks \in BOOLEAN
    /\ spawn_count = 0
    /\ tasks = <<>>
    /\ threads = [k \in {} |-> 0]
    /\ threads_lock = Unlocked
    /\ global_memory = EmptyMemory
    /\ host = [pc |-> "spawn", root_id |-> 0, child |-> 0, handle |-> 0,
               result |-> NoResult]
    /\ write_log = <<>>
    /\ last_read = <<>>
    /\ join_log = <<>>
    /\ actor = 0
    /\ VmIdle

TaskIds == 1 .. Len(tasks)

CurOp(p) == ops[tasks[p].cur]

\* The history of a step of task p that read and wrote global memory.
Logged(p, reads, writes) ==
    /\ write_log' = write_log \o
          [k \in 1 .. Len(writes) |->
              [task |-> p, addr |-> writes[k].addr, val |-> writes[k].val]]
    /\ last_read' =
          IF reads = <<>> THEN last_read
          ELSE [last_read EXCEPT ![p] =
                   [some |-> TRUE, addr |-> reads[Len(reads)].addr,
                    val |-> reads[Len(reads)].val, at |-> Len(write_log),
                    joined |-> tasks[p].joined]]

----------------------------------------------------------------------------
\* Spawner::spawn, in three steps: the id and the ThreadCtx (fetch_add), the
\* lock and tokio::spawn, the insert with the unlock and the return.

\* Lines 40-53: tasks with the new ThreadCtx appended.
SpawnContext(state, parent) ==
    Append(tasks, NewTask(thread_id(rand_seed, spawn_count), state, parent))

\* Lines 55-58, up to the evaluation of spawn_execute(context): the caller holds
\* the lock and the new task is running.
SpawnExecute(ts, caller, child) ==
    /\ ~threads_lock.held
    /\ threads_lock' = LockedBy(caller)
    /\ tasks' = [ts EXCEPT ![child].pc = "fetch"]

\* Line 58: the insert, and the guard dropped at the end of the statement.
SpawnInsert_unregistered(child) ==
    /\ threads' = threads
    /\ threads_lock' = Unlocked

SpawnInsert(child) ==
    /\ threads' = [k \in (DOMAIN threads) \cup {tasks[child].id} |->
                      IF k = tasks[child].id THEN child ELSE threads[k]]
    /\ threads_lock' = Unlocked

\* Lines 67-72: the guard lives in the block that removes the handle and is
\* dropped at its end, before `handle.await`.
join_guard_kept(caller) == LockedBy(caller)

join_guard(caller) == Unlocked

\* Spawner::join up to the await: the handle removed under the lock, or none.
JoinRemove(caller, tid) ==
    /\ ~threads_lock.held
    /\ threads_lock' = join_guard(caller)
    /\ threads' = MapRemove(threads, tid)
    /\ join_log' = Append(join_log,
          [by |-> caller, tid |-> tid,
           handle |-> IF tid \in DOMAIN threads THEN threads[tid] ELSE 0])

----------------------------------------------------------------------------
\* HostCtx::execute.

HostSpawn ==
    /\ host.pc = "spawn"
    /\ Len(tasks) < MaxThreads
    /\ tasks' = SpawnContext(ThreadStateNew, 0)
    /\ last_read' = Append(last_read, NoRead)
    /\ spawn_count' = spawn_count + 1
    /\ host' = IF Location(thread_id(rand_seed, spawn_count)) = 0
               THEN [host EXCEPT !.pc = "spawn_lock", !.child = Len(tasks) + 1]
               ELSE [host EXCEPT !.pc = "done",
                                 !.result = Panic("not yet implemented")]
    /\ actor' = 0
    /\ UNCHANGED vm_vars
    /\ UNCHANGED <<ops, rand_seed, peer_count, overflow_checks, threads,
                   threads_lock, global_memory, write_log, join_log>>

HostSpawnExecute ==
    /\ host.pc = "spawn_lock"
    /\ SpawnExecute(tasks, 0, host.child)
    /\ host' = [host EXCEPT !.pc = "spawn_insert"]
    /\ actor' = 0
    /\ UNCHANGED vm_vars
    /\ UNCHANGED <<ops, rand_seed, peer_count, overflow_checks, spawn_count,
                   threads, global_memory, write_log, last_read, join_log>>

HostSpawnInsert ==
    /\ host.pc = "spawn_insert"
    /\ SpawnInsert(host.child)
    /\ host' = [host EXCEPT !.pc = "join", !.root_id = tasks[host.child].id,
                            !.child = 0]
    /\ actor' = 0
    /\ UNCHANGED vm_vars
    /\ UNCHANGED <<ops, rand_seed, peer_count, overflow_checks, spawn_count,
                   tasks, global_memory, write_log, last_read, join_log>>

HostJoin ==
    /\ host.pc = "join"
    /\ JoinRemove(0, host.root_id)
    /\ host' = IF host.root_id \in DOMAIN threads
               THEN [host EXCEPT !.pc = "join_await",
                                 !.handle = threads[host.root_id]]
               ELSE [host EXCEPT !.pc = "done", !.result = Err(ErrJoin)]
    /\ actor' = 0
    /\ UNCHANGED vm_vars
    /\ UNCHANGED <<ops, rand_seed, peer_count, overflow_checks, spawn_count,
                   tasks, global_memory, write_log, last_read>>

\* Lines 49-52: Exit(code) and Finish(value) both become Ok(word).
HostResult(r) ==
    IF r.kind \in {"Exit", "Finish"}
    THEN [kind |-> "Ok", val |-> r.val, msg |-> ""]
    ELSE r

HostJoinAwait ==
    /\ host.pc = "join_await"
    /\ handle_await(host.handle).ready
    /\ host' = [host EXCEPT !.pc = "done", !.handle = 0,
                            !.result = HostResult(handle_await(host.handle).result)]
    /\ actor' = 0
    /\ UNCHANGED vm_vars
    /\ UNCHANGED <<ops, rand_seed, peer_count, overflow_checks, spawn_count,
                   tasks, threads, threads_lock, global_memory, write_log,
                   last_read, join_log>>

----------------------------------------------------------------------------
\* ThreadCtx::execute: the loop of one running task.

\* Lines 93-97: the opcode at the instruction pointer, or Exit(0) past the end.
fetch_end_error(task) == TaskEnd(task, task.state, Err(ErrJump))

fetch_end(task) == TaskEnd(task, task.state, Exit(0))

Fetch(p) ==
    /\ tasks[p].pc = "fetch"
    /\ LET task == tasks[p]
           ip == task.state.instruction_pointer
       IN  tasks' = task_update(tasks, p,
              IF ip < Len(ops)
              THEN [task EXCEPT !.cur = ip + 1,
                                !.state.instruction_pointer = ip + 1,
                                !.start = [task.state EXCEPT
                                              !.instruction_pointer = ip + 1],
                                !.vals = <<>>,
                                !.pc = IF Arity(ops[ip + 1].op) = 0
                                       THEN "body" ELSE "eval"]
              ELSE fetch_end(task))
    /\ actor' = p
    /\ UNCHANGED vm_vars
    /\ UNCHANGED <<ops, rand_seed, peer_count, overflow_checks, spawn_count,
                   threads, threads_lock, global_memory, host, write_log,
                   last_read, join_log>>

\* Line 440: `$(let $arg = ctx.get($arg).await?;)*` binds the operands in the
\* order the opcode declares them; evaluated operands so far -> the next one.
operand_index_reversed(n, evaluated) == n - evaluated

operand_index(n, evaluated) == evaluated + 1

Eval(p) ==
    /\ tasks[p].pc = "eval"
    /\ LET task == tasks[p]
           k == operand_index(Arity(CurOp(p).op), Len(task.vals))
           e == IF task.partial.some THEN task.partial.e ELSE CurOp(p).args[k]
       IN  \E r \in {get_step(task.id, task.state, e)} :
             /\ tasks' = task_update(tasks, p,
                   IF ~IsOk(r) THEN TaskEnd(task, r.state, r.fail)
                   ELSE IF r.rest.t = "Literal"
                   THEN [task EXCEPT !.state = r.state,
                                     !.vals = Append(@, r.val),
                                     !.partial = NoPartial,
                                     !.pc = IF Len(task.vals) + 1 = Arity(CurOp(p).op)
                                            THEN "body" ELSE "eval"]
                   ELSE [task EXCEPT !.state = r.state,
                                     !.partial = [some |-> TRUE, e |-> r.rest]])
             /\ Logged(p, r.reads, <<>>)
    /\ actor' = p
    /\ UNCHANGED vm_vars
    /\ UNCHANGED <<ops, rand_seed, peer_count, overflow_checks, spawn_count,
                   threads, threads_lock, global_memory, host, join_log>>

\* Line 443: the body of an opcode that does not go through the spawner.
Body(p) ==
    /\ tasks[p].pc = "body"
    /\ CurOp(p).op \notin {"FORK", "JOIN"}
    /\ LET task == tasks[p]
           b == execute_body(CurOp(p).op, task.vals, task.state)
       IN  /\ tasks' = task_update(tasks, p,
                 IF b.end.kind = "None"
                 THEN [task EXCEPT !.state = b.state, !.pc = "fetch"]
                 ELSE TaskEnd(task, b.state, b.end))
           /\ global_memory' = b.memory
           /\ Logged(p, b.reads, b.writes)
    /\ actor' = p
    /\ UNCHANGED vm_vars
    /\ UNCHANGED <<ops, rand_seed, peer_count, overflow_checks, spawn_count,
                   threads, threads_lock, host, join_log>>

\* FORK, lines 498-500: the clone with the parent's id pushed, at the target.
fork_state_own_id(state, id, addr, child_id) ==
    jump_to(push(state, child_id), addr, ops)

fork_state_unchecked(state, id, addr, child_id) ==
    Done([push(state, id) EXCEPT !.instruction_pointer = addr], 0)

fork_state(state, id, addr, child_id) == jump_to(push(state, id), addr, ops)

\* FORK up to the lock of the handle table.
Fork(p) ==
    /\ tasks[p].pc = "body"
    /\ CurOp(p).op = "FORK"
    /\ LET task == tasks[p]
           f == fork_state(task.state, task.id, task.vals[1],
                           thread_id(rand_seed, spawn_count))
       IN  IF ~IsOk(f)
           THEN /\ tasks' = task_update(tasks, p, TaskEnd(task, task.state, f.fail))
                /\ UNCHANGED <<spawn_count, last_read>>
           ELSE /\ Len(tasks) < MaxThreads
                /\ tasks' = task_update(SpawnContext(f.state, p), p,
                      IF Location(thread_id(rand_seed, spawn_count)) = 0
                      THEN [task EXCEPT !.pc = "spawn_lock",
                                        !.child = Len(tasks) + 1]
                      ELSE TaskEnd(task, task.state, Panic("not yet implemented")))
                /\ last_read' = Append(last_read, NoRead)
                /\ spawn_count' = spawn_count + 1
    /\ actor' = p
    /\ UNCHANGED vm_vars
    /\ UNCHANGED <<ops, rand_seed, peer_count, overflow_checks, threads,
                   threads_lock, global_memory, host, write_log, join_log>>

ForkExecute(p) ==
    /\ tasks[p].pc = "spawn_lock"
    /\ SpawnExecute(task_update(tasks, p, [tasks[p] EXCEPT !.pc = "spawn_insert"]),
                    p, tasks[p].child)
    /\ actor' = p
    /\ UNCHANGED vm_vars
    /\ UNCHANGED <<ops, rand_seed, peer_count, overflow_checks, spawn_count,
                   threads, global_memory, host, write_log, last_read, join_log>>

\* Lines 502-505: spawn returns the child id, which the parent pushes.
fork_return(task, child_id) ==
    [task EXCEPT !.state = push(@, child_id), !.pc = "fetch", !.child = 0]

ForkInsert(p) ==
    /\ tasks[p].pc = "spawn_insert"
    /\ SpawnInsert(tasks[p].child)
    /\ tasks' = task_update(tasks, p,
                            fork_return(tasks[p], tasks[tasks[p].child].id))
    /\ actor' = p
    /\ UNCHANGED vm_vars
    /\ UNCHANGED <<ops, rand_seed, peer_count, overflow_checks, spawn_count,
                   global_memory, host, write_log, last_read, join_log>>

\* JOIN up to the await of the handle.
Join(p) ==
    /\ tasks[p].pc = "body"
    /\ CurOp(p).op = "JOIN"
    /\ JoinRemove(p, tasks[p].vals[1])
    /\ tasks' = task_update(tasks, p,
          IF tasks[p].vals[1] \in DOMAIN threads
          THEN [tasks[p] EXCEPT !.pc = "join_await",
                                !.handle = threads[tasks[p].vals[1]]]
          ELSE TaskEnd(tasks[p], tasks[p].state, Err(ErrJoin)))
    /\ actor' = p
    /\ UNCHANGED vm_vars
    /\ UNCHANGED <<ops, rand_seed, peer_count, overflow_checks, spawn_count,
                   global_memory, host, write_log, last_read>>

\* Lines 509-513: what the joiner does with the joined thread's result.
join_body_push_exit(task, r) ==
    IF r.kind \in {"Finish", "Exit"}
    THEN [task EXCEPT !.state = push(@, r.val), !.pc = "fetch", !.handle = 0,
                      !.joined = @ \cup {task.handle}]
    ELSE TaskEnd([task EXCEPT !.handle = 0], task.state, r)

join_body_no_push(task, r) ==
    IF r.kind = "Finish"
    THEN [task EXCEPT !.pc = "fetch", !.handle = 0,
                      !.joined = @ \cup {task.handle}]
    ELSE TaskEnd([task EXCEPT !.handle = 0, !.joined = @ \cup {task.handle}],
                 task.state, r)

join_body_swallow_error(task, r) ==
    IF r.kind \in {"Finish", "Err"}
    THEN [task EXCEPT !.state = push(@, r.val), !.pc = "fetch", !.handle = 0,
                      !.joined = @ \cup {task.handle}]
    ELSE TaskEnd([task EXCEPT !.handle = 0, !.joined = @ \cup {task.handle}],
                 task.state, r)

join_body(task, r) ==
    IF r.kind = "Finish"
    THEN [task EXCEPT !.state = push(@, r.val), !.pc = "fetch", !.handle = 0,
                      !.joined = @ \cup {task.handle}]
    ELSE TaskEnd([task EXCEPT !.handle = 0, !.joined = @ \cup {task.handle}],
                 task.state, r)

JoinAwait(p) ==
    /\ tasks[p].pc = "join_await"
    /\ handle_await(tasks[p].handle).ready
    /\ tasks' = task_update(tasks, p,
                            join_body(tasks[p], handle_await(tasks[p].handle).result))
    /\ actor' = p
    /\ UNCHANGED vm_vars
    /\ UNCHANGED <<ops, rand_seed, peer_count, overflow_checks, spawn_count,
                   threads, threads_lock, global_memory, host, write_log,
                   last_read, join_log>>

----------------------------------------------------------------------------
Next ==
    \/ HostSpawn
    \/ HostSpawnExecute
    \/ HostSpawnInsert
    \/ HostJoin
    \/ HostJoinAwait
    \/ \E p \in TaskIds : Fetch(p)
    \/ \E p \in TaskIds : Eval(p)
    \/ \E p \in TaskIds : Body(p)
    \/ \E p \in TaskIds : Fork(p)
    \/ \E p \in TaskIds : ForkExecute(p)
    \/ \E p \in TaskIds : ForkInsert(p)
    \/ \E p \in TaskIds : Join(p)
    \/ \E p \in TaskIds : JoinAwait(p)

Spec == Init /\ [][Next]_vars

\* The steps of HostCtx::execute, and of the task running thread p.
HostStep ==
    \/ HostSpawn
    \/ HostSpawnExecute
    \/ HostSpawnInsert
    \/ HostJoin
    \/ HostJoinAwait

TaskStep(p) ==
    /\ p \in TaskIds
    /\ \/ Fetch(p)
       \/ Eval(p)
       \/ Body(p)
       \/ Fork(p)
       \/ ForkExecute(p)
       \/ ForkInsert(p)
       \/ Join(p)
       \/ JoinAwait(p)

\* The tokio runtime polls every task that is ready, and its Mutex hands the
\* lock to waiters in the order they asked: the host and every thread that
\* can step again and again does step, also where the step needs the
\* handle-table lock that others take and release in between.
SpecFair ==
    /\ Init
    /\ [][Next]_vars
    /\ SF_vars(HostStep)
    /\ \A p \in 1 .. MaxThreads : SF_vars(TaskStep(p))

----------------------------------------------------------------------------
\* flock_vm: Task::run over a ByteCode, one Task::tick per step.

\* Longest stack a Task is given.
VmMaxStack == 3

\* Values on the stack a Task is given.
VmValues == {0 - 1, 0, 1, MSB - 1}

VmStacks == UNION {[1 .. n -> VmValues] : n \in 0 .. VmMaxStack}

JumpByteCodes ==
    {<<OpJump(flags, target), OpPush(7), OpHalt>> :
        flags \in ConditionFlags, target \in {NoTarget, SomeTarget(2)}}

BuryByteCodes == {<<OpBury(k), OpDredge(k)>> : k \in 0 .. VmMaxStack}

OtherByteCodes ==
    { <<OpPush(1), OpAdd, OpDuplicate, OpDumpDebug, OpPop,
        OpJumpToSubroutine(SomeTarget(7)), OpPanic, OpStoreRelative(8)>>,
      <<OpJumpToSubroutine(NoTarget), OpLoad(8)>>,
      <<OpReturn, OpFork>>,
      <<OpLoadRelative(8)>>,
      <<OpStore(8)>>,
      <<OpJoin(1)>>,
      <<OpBury(0 - 1)>>,
      <<OpDredge(0 - 1)>> }

ByteCodes == JumpByteCodes \cup BuryByteCodes \cup OtherByteCodes

\* A Task (new, or as earlier runs and deserialisation left it, at its first
\* opcode) is about to run a ByteCode; no flasm program is loaded.
InitVm ==
    /\ ops = <<>>
    /\ rand_seed = 0
    /\ peer_count = 0
    /\ overflow_checks \in BOOLEAN
    /\ spawn_count = 0
    /\ tasks = <<>>
    /\ threads = [k \in {} |-> 0]
    /\ threads_lock = Unlocked
    /\ global_memory = EmptyMemory
    /\ host = [pc |-> "spawn", root_id |-> 0, child |-> 0, handle |-> 0,
               result |-> NoResult]
    /\ write_log = <<>>
    /\ last_read = <<>>
    /\ join_log = <<>>
    /\ actor = 0
    /\ vm_bytecode \in ByteCodes
    /\ vm_task \in {[program_counter |-> 0, stack |-> st, forked |-> f] :
                        st \in VmStacks, f \in BOOLEAN}
    /\ vm_execution = VmRunning
    /\ vm_given = vm_task

\* One iteration of the loop of Task::run.
VmTick ==
    /\ vm_execution.kind = "Running"
    /\ LET r == tick(vm_task, vm_bytecode)
       IN  /\ vm_task' = r.task
           /\ vm_execution' =
                 CASE r.flow = "Continue" -> VmRunning
                   [] r.flow = "Return" -> [kind |-> "Ok", out |-> r.out]
                   [] r.flow = "Err" -> [kind |-> "Err", out |-> r.out]
                   [] r.flow = "Panic" -> [kind |-> "Panic", out |-> r.out]
    /\ UNCHANGED <<vm_bytecode, vm_given>>
    /\ UNCHANGED <<ops, rand_seed, peer_count, overflow_checks, spawn_count,
                   tasks, threads, threads_lock, global_memory, host,
                   write_log, last_read, join_log, actor>>

NextVm == VmTick

SpecVm == InitVm /\ [][NextVm]_vars

----------------------------------------------------------------------------
\* Properties.

IsProgram(lines) == ProgramParse(lines).ok /\ ops = ProgramParse(lines).ops

HostOk(w) == [kind |-> "Ok", val |-> w, msg |-> ""]

\* C1: a successful FORK(addr) by P, with stack S and local memory M after the
\* operand is evaluated, starts a child at stack S ++ [id of P], memory M and
\* instruction pointer addr; P continues at the next opcode with stack
\* S ++ [child id] and M unchanged.
C1_ForkContract ==
    [][\A p \in TaskIds :
        /\ (tasks[p].pc = "body" /\ CurOp(p).op = "FORK"
                /\ tasks'[p].pc = "spawn_lock")
              => tasks'[p].state = tasks[p].state
        /\ (tasks[p].pc = "spawn_lock" /\ tasks'[p].pc # "spawn_lock")
              => /\ tasks'[p].state = tasks[p].state
                 /\ tasks[tasks[p].child].pc = "created"
                 /\ tasks'[tasks[p].child].pc = "fetch"
                 /\ tasks'[tasks[p].child].state =
                       [stack |-> Append(tasks[p].state.stack, tasks[p].id),
                        memory |-> tasks[p].state.memory,
                        instruction_pointer |-> tasks[p].vals[1]]
        /\ (tasks[p].pc = "spawn_insert" /\ tasks'[p].pc # "spawn_insert")
              => /\ tasks'[p].pc = "fetch"
                 /\ tasks'[p].state =
                       [stack |-> Append(tasks[p].state.stack,
                                         tasks[tasks[p].child].id),
                        memory |-> tasks[p].state.memory,
                        instruction_pointer |-> tasks[p].cur]
    ]_vars

C1_Witness ==
    \E p \in TaskIds : \E c \in TaskIds :
        /\ tasks[c].parent = p
        /\ tasks[p].pc = "fetch" /\ CurOp(p).op = "FORK"
        /\ tasks[p].state.stack = <<2, tasks[c].id>>
        /\ tasks[c].pc = "fetch"
        /\ tasks[c].state.stack = <<2, tasks[p].id>>
        /\ tasks[c].state.memory = tasks[p].state.memory
        /\ tasks[p].state.memory # EmptyMemory
        /\ tasks[c].state.instruction_pointer = 6

\* C2: a JOIN whose joined thread ended with Exit(code) ends the joiner with
\* Exit(code): it pushes nothing, and a thread that has ended runs no opcode.
C2_JoinExit ==
    [][\A p \in TaskIds :
        /\ (tasks[p].pc = "join_await" /\ tasks'[p].pc # "join_await"
                /\ tasks[tasks[p].handle].result.kind = "Exit")
              => /\ tasks'[p].pc = "done"
                 /\ tasks'[p].result = Exit(tasks[tasks[p].handle].result.val)
                 /\ tasks'[p].state = tasks[p].state
        /\ tasks[p].pc = "done"
              => /\ tasks'[p].pc = "done"
                 /\ tasks'[p].state = tasks[p].state
                 /\ tasks'[p].result = tasks[p].result
    ]_vars

C2_Witness ==
    \E p \in TaskIds : \E c \in tasks[p].joined :
        /\ tasks[c].result = Exit(5)
        /\ tasks[p].pc = "done"
        /\ tasks[p].result = Exit(5)
        /\ CurOp(p).op = "JOIN"

\* C3: a JOIN whose joined thread ended with Finish(value) appends value to the
\* joiner's stack as it is after operand evaluation, leaves its local memory
\* unchanged and continues with the next opcode.
C3_JoinFinish ==
    [][\A p \in TaskIds :
        (tasks[p].pc = "join_await" /\ tasks'[p].pc # "join_await"
            /\ tasks[tasks[p].handle].result.kind = "Finish")
          => /\ tasks'[p].pc = "fetch"
             /\ tasks'[p].state =
                   [stack |-> Append(tasks[p].state.stack,
                                     tasks[tasks[p].handle].result.val),
                    memory |-> tasks[p].state.memory,
                    instruction_pointer |-> tasks[p].cur]
    ]_vars

C3_Witness ==
    \E p \in TaskIds : \E c \in tasks[p].joined :
        /\ tasks[c].result = Finish(9)
        /\ tasks[p].pc = "fetch" /\ CurOp(p).op = "JOIN"
        /\ tasks[p].state.stack = <<2, 9>>
        /\ tasks[p].state.memory # EmptyMemory

\* The joins of the log that were given a handle for thread id tid.
JoinsGiven(tid) ==
    {i \in DOMAIN join_log : join_log[i].tid = tid /\ join_log[i].handle # 0}

SpawnedIds == {tasks[t].id : t \in {u \in TaskIds : tasks[u].pc # "created"}}

\* C4: at most one join of a thread id obtains that thread's handle, whoever
\* joins and in whatever order; every other join of the id, and every join of
\* an id no spawn returned, fails with "Joined unknown thread".
C4_JoinAtMostOnce ==
    /\ \A i \in DOMAIN join_log :
          /\ Cardinality(JoinsGiven(join_log[i].tid)) <= 1
          /\ join_log[i].tid \notin SpawnedIds => join_log[i].handle = 0
          /\ join_log[i].handle # 0 =>
                tasks[join_log[i].handle].id = join_log[i].tid
          /\ join_log[i].handle = 0 =>
                IF join_log[i].by = 0
                THEN host.pc = "done" /\ host.result = Err(ErrJoin)
                ELSE /\ tasks[join_log[i].by].pc = "done"
                     /\ tasks[join_log[i].by].result = Err(ErrJoin)

C4_Witness ==
    /\ \E i \in DOMAIN join_log : \E j \in DOMAIN join_log :
          /\ i < j
          /\ join_log[i].tid = join_log[j].tid
          /\ join_log[i].by # join_log[j].by
          /\ join_log[i].handle # 0
          /\ join_log[j].handle = 0
          /\ join_log[j].tid \in SpawnedIds

\* The host's execute returns in this step.
HostReturns == host.pc # "done" /\ host'.pc = "done"

\* C5: when the host returns, every thread forked under the root that ended
\* with Exit(c) and was joined has made the process result c.
C5_ExitPropagation ==
    [][HostReturns =>
        \A c \in TaskIds :
            (/\ tasks[c].parent # 0
             /\ tasks[c].result.kind = "Exit"
             /\ \E p \in TaskIds : c \in tasks[p].joined)
              => host'.result = HostOk(tasks[c].result.val)
    ]_vars

\* C6: when the host returns, every thread that executed EXIT(c), joined or
\* not, has made the process result c.
C6_ExitProcessWide ==
    [][HostReturns =>
        \A t \in TaskIds :
            (/\ tasks[t].pc = "done"
             /\ tasks[t].cur > 0
             /\ ops[tasks[t].cur].op = "EXIT"
             /\ tasks[t].result.kind = "Exit")
              => host'.result = HostOk(tasks[t].result.val)
    ]_vars

\* The step that starts task p leaves it at instruction pointer 0 with an
\* empty stack and empty local memory.
StartsNew(p) ==
    (tasks[p].pc = "created" /\ tasks'[p].pc # "created")
      => /\ tasks'[p].pc = "fetch"
         /\ tasks'[p].state = [stack |-> <<>>, memory |-> EmptyMemory,
                               instruction_pointer |-> 0]

\* A fetch of task p takes the opcode at the instruction pointer and moves the
\* pointer to the next one, or ends p with Exit(0) at or past the end.
FetchInOrder(p) ==
    (tasks[p].pc = "fetch" /\ tasks'[p] # tasks[p])
      => IF tasks[p].state.instruction_pointer < Len(ops)
         THEN /\ tasks'[p].cur = tasks[p].state.instruction_pointer + 1
              /\ tasks'[p].pc \in {"eval", "body"}
              /\ tasks'[p].state =
                    [tasks[p].state EXCEPT !.instruction_pointer = @ + 1]
         ELSE /\ tasks'[p].pc = "done"
              /\ tasks'[p].result = Exit(0)
              /\ tasks'[p].state = tasks[p].state

\* C7 as stated: every thread starts at instruction pointer 0 with an empty
\* stack and empty local memory, executes opcodes in program order and ends
\* with Exit(0) when it fetches at or past the end of the opcode vector.
C7_EveryThreadStartsNew ==
    [][\A p \in TaskIds : StartsNew(p) /\ FetchInOrder(p)]_vars

\* C7, amended: the root thread (the one HostCtx::execute spawns) starts at
\* instruction pointer 0 with an empty stack and empty local memory; every
\* thread executes opcodes in program order and ends with Exit(0) when it
\* fetches at or past the end of the opcode vector.
C7_ExecutionLoop ==
    [][\A p \in TaskIds :
        /\ tasks[p].parent = 0 => StartsNew(p)
        /\ FetchInOrder(p)
    ]_vars

C7_Witness ==
    /\ IsProgram(ProgArith)
    /\ \E p \in TaskIds :
          /\ tasks[p].parent = 0
          /\ tasks[p].pc = "done"
          /\ tasks[p].result = Exit(0)
          /\ tasks[p].state.instruction_pointer = Len(ops)
          /\ tasks[p].state.stack = <<42>>
    /\ host.result = HostOk(0)

\* C8: the stack and the local memory of a thread change only in steps of that
\* thread: no step of a forked child changes its parent's, none of the parent
\* changes the child's.
C8_ForkIndependence ==
    [][\A t \in TaskIds :
        (\/ tasks'[t].state.stack # tasks[t].state.stack
         \/ tasks'[t].state.memory # tasks[t].state.memory)
          => actor' = t
    ]_vars

C8_Witness ==
    \E p \in TaskIds : \E c \in TaskIds :
        /\ tasks[c].parent = p
        /\ tasks[p].state.memory # EmptyMemory
        /\ tasks[c].state.memory # tasks[p].state.memory
        /\ MemoryGet(tasks[c].state.memory, 1) = 9
        /\ MemoryGet(tasks[p].state.memory, 1) = 6
        /\ tasks[p].state.stack = <<2, 9>>
        /\ tasks[c].state.stack = <<2>>

\* The value of the latest write to address a in a log of writes, 0 if none.
LastWriteVal(log, a) ==
    LET at == {i \in DOMAIN log : log[i].addr = a}
    IN  IF at = {} THEN 0
        ELSE log[CHOOSE i \in at : \A k \in at : k <= i].val

\* C9: once a JOIN has returned a thread's result, every global write of that
\* thread is ordered before it: the joined thread has ended, and a later global
\* read by the joiner of an address the joined thread wrote comes after that
\* write and returns the latest write to the address.
C9_JoinOrdering ==
    /\ \A j \in TaskIds : \A c \in tasks[j].joined : tasks[c].pc = "done"
    /\ \A j \in TaskIds :
          last_read[j].some =>
             \A c \in last_read[j].joined : \A i \in DOMAIN write_log :
                (write_log[i].task = c /\ write_log[i].addr = last_read[j].addr)
                  => /\ i <= last_read[j].at
                     /\ last_read[j].val =
                           LastWriteVal(SubSeq(write_log, 1, last_read[j].at),
                                        last_read[j].addr)

C9_Witness ==
    \E j \in TaskIds : \E c \in last_read[j].joined : \E i \in DOMAIN write_log :
        /\ last_read[j].some
        /\ write_log[i].task = c
        /\ write_log[i].addr = last_read[j].addr
        /\ write_log[i].val = last_read[j].val
        /\ last_read[j].val = 13

GlobalAddresses == {a \in Word : a >= MSB /\ a % WORD_SIZE = 0}

\* C10: a read of an aligned global address returns the value of the latest
\* write to it in lock order, whoever wrote it, and 0 when it was never
\* written; the entries of the global memory are those ever written.
C10_GlobalReads ==
    /\ \A t \in TaskIds :
          last_read[t].some =>
             last_read[t].val = LastWriteVal(SubSeq(write_log, 1, last_read[t].at),
                                             last_read[t].addr)
    /\ \A a \in GlobalAddresses :
          global_get(global_memory, a) = LastWriteVal(write_log, a)
    /\ DOMAIN global_memory = {write_log[i].addr : i \in DOMAIN write_log}

C10_Witness ==
    \E t \in TaskIds : \E u \in TaskIds :
        /\ last_read[t].some /\ last_read[u].some
        /\ last_read[t].addr = GlobalAddr(0)
        /\ last_read[t].val = 13
        /\ last_read[t].at = 4
        /\ write_log[1].task # write_log[4].task
        /\ last_read[u].addr = GlobalAddr(16)
        /\ last_read[u].val = 0
        /\ Cardinality(DOMAIN global_memory) = 2

\* The state and the values after applying the first k operands of args to
\* state, each once, left to right; ok is FALSE when one of them fails.
RECURSIVE OperandsApplied(_, _, _, _)
OperandsApplied(id, state, args, k) ==
    IF k = 0 THEN [state |-> state, vals |-> <<>>, ok |-> TRUE]
    ELSE LET prev == OperandsApplied(id, state, args, k - 1)
             r == get(id, prev.state, args[k])
         IN  IF ~prev.ok \/ ~IsOk(r) THEN [prev EXCEPT !.ok = FALSE]
             ELSE [state |-> r.state, vals |-> Append(prev.vals, r.val),
                   ok |-> TRUE]

\* The operand reads memory, which another thread may write meanwhile.
RECURSIVE ReadsMemory(_)
ReadsMemory(val_sp) ==
    CASE val_sp.t \in {"Memory", "GlobalMemory"} -> TRUE
      [] val_sp.t = "PopI" -> ReadsMemory(val_sp.e)
      [] OTHER -> FALSE

\* C11: the operands of an opcode are evaluated once each, left to right,
\* before its body runs: after k operands the thread's state is the state at
\* the fetch with the first k operands applied in order, the body sees all of
\* them applied and their values in declaration order, and SUB $pop, $pop on a
\* stack [.., x, y] has operands y then x and pushes y - x.
C11_OperandOrder ==
    \A p \in TaskIds :
        tasks[p].pc \in {"eval", "body"} =>
            LET task == tasks[p]
                args == CurOp(p).args
                r == OperandsApplied(task.id, task.start, args, Len(task.vals))
                n == Len(task.start.stack)
            IN  /\ Len(task.vals) <= Len(args)
                /\ task.pc = "body" <=> Len(task.vals) = Len(args)
                /\ r.ok
                /\ ~task.partial.some => task.state = r.state
                /\ (\A k \in DOMAIN args : ~ReadsMemory(args[k]))
                      => task.vals = r.vals
                /\ (task.pc = "body" /\ CurOp(p).op = "SUB" /\ args = <<Pop, Pop>>)
                      => /\ task.vals = <<task.start.stack[n], task.start.stack[n - 1]>>
                         /\ task.state.stack = SubSeq(task.start.stack, 1, n - 2)
                         /\ task.vals[1] >= task.vals[2] =>
                               execute_body("SUB", task.vals, task.state).state.stack
                                 = Append(SubSeq(task.start.stack, 1, n - 2),
                                          task.start.stack[n] - task.start.stack[n - 1])

C11_Witness ==
    /\ IsProgram(ProgOperands)
    /\ \E p \in TaskIds :
          /\ tasks[p].pc = "body"
          /\ CurOp(p).op = "ADD"
          /\ tasks[p].start.stack = <<7, 20, 1>>
          /\ tasks[p].vals = <<7, 20>>
          /\ tasks[p].state.stack = <<>>

\* The operand task p evaluates next.
NextOperand(p) ==
    IF tasks[p].partial.some THEN tasks[p].partial.e
    ELSE CurOp(p).args[Len(tasks[p].vals) + 1]

\* Task p evaluates an operand in this step.
EvalStep(p) == tasks[p].pc = "eval" /\ tasks'[p] # tasks[p]

\* C12: an indexed pop whose index i is at least the length of the stack ends
\* the thread with the error "Pop from empty stack" and removes no element;
\* with i below the length it removes and yields the element i places below
\* the top.
C12_PopIRange ==
    [][\A p \in TaskIds :
        (EvalStep(p) /\ NextOperand(p).t = "PopI"
            /\ IsOk(get(tasks[p].id, tasks[p].state, NextOperand(p).e)))
          => LET i == get(tasks[p].id, tasks[p].state, NextOperand(p).e)
                 n == Len(i.state.stack)
             IN  IF i.val >= n
                 THEN /\ tasks'[p].pc = "done"
                      /\ tasks'[p].result = Err(ErrPop)
                      /\ tasks'[p].state.stack = i.state.stack
                 ELSE /\ tasks'[p].vals =
                            Append(tasks[p].vals, i.state.stack[n - i.val])
                      /\ tasks'[p].state.stack = RemoveAt(i.state.stack, n - i.val)
    ]_vars

\* Task p runs the body of opcode name in this step.
BodyStep(p, name) ==
    tasks[p].pc = "body" /\ CurOp(p).op = name /\ tasks'[p] # tasks[p]

\* C13: ADD, SUB and MUL never fail and push (a op b) modulo the size of a
\* Word, also when the exact sum, difference or product is not a Word.
C13_ModularArithmetic ==
    [][\A p \in TaskIds :
        LET a == tasks[p].vals[1]
            b == tasks[p].vals[2]
            Pushes(w) == /\ tasks'[p].pc = "fetch"
                         /\ tasks'[p].state.stack = Append(tasks[p].state.stack, w)
        IN  /\ BodyStep(p, "ADD") => Pushes((a + b) % WordModulus)
            /\ BodyStep(p, "SUB") => Pushes((a - b) % WordModulus)
            /\ BodyStep(p, "MUL") => Pushes((a * b) % WordModulus)
    ]_vars

\* Task p ends in this step with the error "Jump outside of program range",
\* its ThreadState as it was.
FailsJump(p) ==
    /\ tasks'[p].pc = "done"
    /\ tasks'[p].result = Err(ErrJump)
    /\ tasks'[p].state = tasks[p].state

\* C14: a taken JUMP or JUMP_EQ whose target is at or past the number of
\* opcodes fails with "Jump outside of program range" and leaves the
\* instruction pointer alone; a JUMP_EQ whose operands differ neither jumps
\* nor fails, whatever its target.
C14_JumpRange ==
    [][\A p \in TaskIds :
        /\ (BodyStep(p, "JUMP") /\ tasks[p].vals[1] >= Len(ops)) => FailsJump(p)
        /\ (BodyStep(p, "JUMP_EQ") /\ tasks[p].vals[1] = tasks[p].vals[2]
                /\ tasks[p].vals[3] >= Len(ops)) => FailsJump(p)
        /\ (BodyStep(p, "JUMP_EQ") /\ tasks[p].vals[1] # tasks[p].vals[2])
              => /\ tasks'[p].pc = "fetch"
                 /\ tasks'[p].state = tasks[p].state
    ]_vars

C14_Witness ==
    /\ IsProgram(ProgJumps)
    /\ \E p \in TaskIds : \E c \in TaskIds :
          /\ tasks[p].result = Err(ErrJump)
          /\ CurOp(p).op = "JUMP"
          /\ tasks[p].vals = <<Len(ops)>>
          /\ tasks[p].state.instruction_pointer = tasks[p].cur
          /\ tasks[c].result = Err(ErrJump)
          /\ CurOp(c).op = "JUMP_EQ"
          /\ tasks[c].vals = <<4, 4, 200>>
          /\ tasks[c].state.instruction_pointer = tasks[c].cur

\* C15: a FORK whose target is outside the opcode vector fails without
\* spawning: the spawn counter allocates no id, no ThreadCtx is built and none
\* starts, the handle table and its lock are untouched, and the parent's
\* stack gets no child id.
C15_ForkRange ==
    [][\A p \in TaskIds :
        (BodyStep(p, "FORK") /\ tasks[p].vals[1] >= Len(ops))
          => /\ FailsJump(p)
             /\ spawn_count' = spawn_count
             /\ Len(tasks') = Len(tasks)
             /\ threads' = threads
             /\ threads_lock' = threads_lock
    ]_vars

C15_Witness ==
    /\ IsProgram(ProgForkOut)
    /\ \E p \in TaskIds :
          /\ tasks[p].result = Err(ErrJump)
          /\ CurOp(p).op = "FORK"
          /\ tasks[p].vals = <<Len(ops)>>
          /\ tasks[p].state.stack = <<1>>
          /\ tasks[p].state.memory # EmptyMemory
    /\ spawn_count = 1
    /\ Len(tasks) = 1
    /\ host.pc = "done"

\* Task p ends in this step with a misaligned-address error; its local memory
\* and the global memory are as they were.
FailsMisaligned(p) ==
    /\ tasks'[p].pc = "done"
    /\ tasks'[p].result = Err(ErrMisaligned)
    /\ tasks'[p].state = tasks[p].state
    /\ global_memory' = global_memory

\* Task p reads address addr in this step and yields the value: from its local
\* memory when the top bit is 0, from the global memory when it is 1.
ReadsRouted(p, addr, yielded) ==
    IF addr % WORD_SIZE # 0 THEN FailsMisaligned(p)
    ELSE /\ tasks'[p].pc # "done"
         /\ yielded = IF addr < MSB
                       THEN MemoryGet(tasks[p].state.memory, addr \div WORD_SIZE)
                       ELSE MemoryGet(global_memory, addr)
         /\ tasks'[p].state.memory = tasks[p].state.memory
         /\ global_memory' = global_memory

\* Task p writes value at address addr in this step: to its local memory when
\* the top bit is 0, to the global memory when it is 1.
WritesRouted(p, addr, value) ==
    IF addr % WORD_SIZE # 0 THEN FailsMisaligned(p)
    ELSE /\ tasks'[p].pc = "fetch"
         /\ IF addr < MSB
            THEN /\ tasks'[p].state.memory =
                       MemoryInsert(tasks[p].state.memory, addr \div WORD_SIZE, value)
                 /\ global_memory' = global_memory
            ELSE /\ tasks'[p].state.memory = tasks[p].state.memory
                 /\ global_memory' = MemoryInsert(global_memory, addr, value)

\* C16: every memory access (STORE, STORE_GLOBAL, LOAD, $mem, $gmem) at an
\* address that is not a multiple of WORD_SIZE fails with a misaligned-address
\* error, whatever the top bit, and changes neither memory; an aligned address
\* goes to the local memory when its top bit is 0 and to the global memory
\* when it is 1.
C16_AlignmentAndRouting ==
    [][\A p \in TaskIds :
        /\ BodyStep(p, "STORE")
              => WritesRouted(p, tasks[p].vals[1], tasks[p].vals[2])
        /\ BodyStep(p, "STORE_GLOBAL")
              => WritesRouted(p, to_global(tasks[p].vals[1]), tasks[p].vals[2])
        /\ BodyStep(p, "LOAD")
              => ReadsRouted(p, tasks[p].vals[1],
                             tasks'[p].state.stack[Len(tasks'[p].state.stack)])
        /\ (EvalStep(p) /\ NextOperand(p).t \in {"Memory", "GlobalMemory"}
                /\ IsOk(get(tasks[p].id, tasks[p].state, NextOperand(p).e))
                /\ get(tasks[p].id, tasks[p].state, NextOperand(p).e).reads = <<>>)
              => LET e == get(tasks[p].id, tasks[p].state, NextOperand(p).e).val
                 IN  ReadsRouted(p,
                        IF NextOperand(p).t = "Memory" THEN e ELSE to_global(e),
                        tasks'[p].vals[Len(tasks'[p].vals)])
    ]_vars

C16_Witness ==
    /\ IsProgram(ProgMisalignedStore)
    /\ Len(tasks) = 4
    /\ \A t \in TaskIds :
          /\ tasks[t].result = Err(ErrMisaligned)
          /\ tasks[t].state.memory = MemoryInsert(EmptyMemory, 1, 7)
    /\ {tasks[t].vals[1] : t \in TaskIds} = {12, 4, GlobalAddr(4), GlobalAddr(1)}
    /\ global_memory = MemoryInsert(EmptyMemory, GlobalAddr(0), 6)

\* The spawn call that built task t has returned Ok(thread_id): it took the
\* arm of the local location (the other arm ends in the panic of todo!() and
\* returns nothing) and its caller is no longer inside it.
SpawnOver(t) ==
    /\ Location(tasks[t].id) = 0
    /\ host.child # t
    /\ \A p \in TaskIds : tasks[p].child # t

\* The join logged at i is the first join of its id.
FirstJoin(i) == \A k \in 1 .. (i - 1) : join_log[k].tid # join_log[i].tid

\* C17: every id returned by a spawn belongs to a thread that is running and
\* whose handle is registered under the id when spawn returns, so the first
\* join of the id is given that thread's handle and, once the thread has
\* ended, returns what its handle holds (its result, or the error of its
\* panic): the host turns the root's Exit or Finish into its word, a joining
\* thread ends with the Exit or error.  The spawner is the one the
\* program builds, which has no peers, so every id is at the local location.
C17_SpawnRegisters ==
    /\ peer_count = 0
    /\ \A t \in TaskIds :
          SpawnOver(t) =>
             /\ tasks[t].pc # "created"
             /\ \/ /\ tasks[t].id \in DOMAIN threads
                   /\ threads[tasks[t].id] = t
                \/ \E i \in DOMAIN join_log : join_log[i].handle = t
    /\ \A i \in DOMAIN join_log : \A t \in TaskIds :
          (/\ join_log[i].tid = tasks[t].id
           /\ SpawnOver(t)
           /\ FirstJoin(i))
             => /\ join_log[i].handle = t
                /\ (join_log[i].by = 0 /\ host.pc = "done")
                      => host.result = HostResult(handle_await(t).result)
                /\ (/\ join_log[i].by # 0
                    /\ t \in tasks[join_log[i].by].joined
                    /\ handle_await(t).result.kind # "Finish")
                      => tasks[join_log[i].by].result = handle_await(t).result

\* A forked thread whose spawn has returned was joined for the first time by
\* another thread, which was given its handle and its Finish value.
C17_Witness ==
    \E t \in TaskIds : \E i \in DOMAIN join_log :
        /\ tasks[t].parent # 0
        /\ SpawnOver(t)
        /\ join_log[i].tid = tasks[t].id
        /\ FirstJoin(i)
        /\ join_log[i].handle = t
        /\ join_log[i].by # 0
        /\ t \in tasks[join_log[i].by].joined
        /\ tasks[t].result.kind = "Finish"
        /\ host.pc = "done"
        /\ host.result.kind = "Ok"

\* Caller c (0 is the host) waits in Spawner::join for a task that has not
\* ended.
Blocked(c) ==
    IF c = 0
    THEN host.pc = "join_await" /\ ~handle_await(host.handle).ready
    ELSE tasks[c].pc = "join_await" /\ ~handle_await(tasks[c].handle).ready

\* C19: the lock of the handle table is never held by a caller that waits for
\* a thread to complete: whoever holds it is in spawn, about to insert and
\* release, so callers blocked in join keep no other caller out of the table.
C19_LockNotHeldInAwait ==
    /\ host.pc = "join_await" => threads_lock # LockedBy(0)
    /\ \A p \in TaskIds : tasks[p].pc = "join_await" => threads_lock # LockedBy(p)
    /\ threads_lock.held =>
          IF threads_lock.by = 0 THEN host.pc = "spawn_insert"
          ELSE /\ threads_lock.by \in TaskIds
               /\ tasks[threads_lock.by].pc = "spawn_insert"

\* The host, then the root, then the root's child went through the table to
\* join while each earlier joiner was blocked, and all three still are.
C19_Witness ==
    /\ IsProgram(ProgNested)
    /\ Len(join_log) = 3
    /\ join_log[1].by = 0 /\ join_log[2].by = 1 /\ join_log[3].by = 2
    /\ \A i \in 1 .. 3 : join_log[i].handle # 0
    /\ Blocked(0) /\ Blocked(1) /\ Blocked(2)
    /\ tasks[3].pc # "done"

\* Forked child c takes a step of its own.
ChildStep(c) ==
    tasks[c].parent # 0 /\ actor' = c /\ tasks'[c] # tasks[c]

\* C20 as stated: a forked child executes only once its parent's FORK has
\* returned the child id (the parent has left the spawn call).
C20_ChildAfterForkReturns ==
    [][\A c \in TaskIds :
        ChildStep(c) => tasks[tasks[c].parent].child # c
    ]_vars

\* C20, amended: a forked child executes only once its parent's FORK, inside
\* the spawn call and holding the lock of the handle table, has handed it to
\* the executor; the insert of the handle and the return of the child id may
\* come later.
C20_ChildAfterSpawnExecute ==
    [][\A c \in TaskIds :
        ChildStep(c) =>
            /\ tasks[c].pc # "created"
            /\ ~(tasks[tasks[c].parent].pc = "spawn_lock"
                  /\ tasks[tasks[c].parent].child = c)
    ]_vars

\* The child has run to its end while its parent is still inside spawn.
C20_Witness ==
    \E p \in TaskIds : \E c \in TaskIds :
        /\ tasks[c].parent = p
        /\ tasks[p].pc = "spawn_insert"
        /\ tasks[p].child = c
        /\ threads_lock = LockedBy(p)
        /\ tasks[c].pc = "done"
        /\ tasks[c].cur > 0

\* Task p ends in this step with result r.
Ends(p, r) == tasks'[p].pc = "done" /\ tasks'[p].result = r

\* C21: an error raised by an opcode (failed ASSERT_EQ, misaligned access, bad
\* jump, pop from an empty stack, unknown join) ends its thread with that
\* error, and the thread runs nothing more; a thread that joins a thread
\* ended by an error ends with the error and pushes nothing; an error of the
\* root thread is the error the host's execute returns.
C21_ErrorPropagation ==
    [][/\ \A p \in TaskIds :
            /\ (BodyStep(p, "ASSERT_EQ") /\ tasks[p].vals[1] # tasks[p].vals[2])
                  => Ends(p, Err(ErrAssert))
            /\ (BodyStep(p, "STORE") /\ tasks[p].vals[1] % WORD_SIZE # 0)
                  => Ends(p, Err(ErrMisaligned))
            /\ (BodyStep(p, "JUMP") /\ tasks[p].vals[1] >= Len(ops))
                  => Ends(p, Err(ErrJump))
            /\ (EvalStep(p) /\ NextOperand(p) = Pop /\ tasks[p].state.stack = <<>>)
                  => Ends(p, Err(ErrPop))
            /\ (BodyStep(p, "JOIN") /\ tasks[p].vals[1] \notin DOMAIN threads)
                  => Ends(p, Err(ErrJoin))
            /\ tasks[p].result.kind = "Err" => tasks'[p] = tasks[p]
            /\ (tasks[p].pc = "join_await" /\ tasks'[p].pc # "join_await"
                    /\ tasks[tasks[p].handle].result.kind = "Err")
                  => /\ Ends(p, tasks[tasks[p].handle].result)
                     /\ tasks'[p].state = tasks[p].state
       /\ (HostReturns /\ host.pc = "join_await"
              /\ tasks[host.handle].result.kind = "Err")
             => host'.result = tasks[host.handle].result
    ]_vars

C21_Witness ==
    /\ IsProgram(ProgChildFails)
    /\ \E p \in TaskIds : \E c \in tasks[p].joined :
          /\ tasks[c].result = Err(ErrAssert)
          /\ tasks[c].state.instruction_pointer = tasks[c].cur
          /\ tasks[p].parent = 0
          /\ tasks[p].result = Err(ErrAssert)
          /\ CurOp(p).op = "JOIN"
          /\ tasks[p].state.stack = <<1>>
    /\ host.result = Err(ErrAssert)

\* The step that starts forked child c.
ChildStarts(c) ==
    tasks[c].parent # 0 /\ tasks[c].pc = "created" /\ tasks'[c].pc # "created"

TopOfStack(state) == state.stack[Len(state.stack)]

\* C22 as stated: when a forked child begins execution, the top of its stack
\* is the child's own thread id, the value $tid yields in the child.
C22_ChildGetsOwnId ==
    [][\A c \in TaskIds :
        ChildStarts(c) =>
            /\ tasks'[c].state.stack # <<>>
            /\ TopOfStack(tasks'[c].state)
                  = get(tasks'[c].id, tasks'[c].state, ThreadId).val
    ]_vars

\* C22, amended: when a forked child begins execution, the top of its stack
\* is its parent's thread id, the value $tid yields in the parent.
C22_ChildGetsParentId ==
    [][\A c \in TaskIds :
        ChildStarts(c) =>
            /\ tasks'[c].state.stack # <<>>
            /\ TopOfStack(tasks'[c].state)
                  = get(tasks[tasks[c].parent].id, tasks[tasks[c].parent].state,
                        ThreadId).val
    ]_vars

C22_Witness ==
    /\ IsProgram(ProgForkBoth)
    /\ \E c \in TaskIds : \E g \in TaskIds :
          /\ tasks[c].parent # 0
          /\ tasks[g].parent = c
          /\ tasks[g].pc = "fetch" /\ tasks[g].cur = 0
          /\ TopOfStack(tasks[g].state) = tasks[c].id
          /\ tasks[g].id # tasks[c].id

\* addr with its top bit set.
TopBitSet(addr) == (addr % MSB) + MSB

\* Values stored in the comparison of the two forms.
StoredValues == {1, WordModulus - 1}

\* Task p is about to read memory: at a $mem or $gmem operand, or in the
\* body of a LOAD.
AtMemoryRead(p) ==
    \/ tasks[p].pc = "eval" /\ NextOperand(p).t \in {"Memory", "GlobalMemory"}
    \/ tasks[p].pc = "body" /\ CurOp(p).op = "LOAD"

\* Task p is about to write memory: in the body of a STORE or STORE_GLOBAL.
AtMemoryWrite(p) ==
    tasks[p].pc = "body" /\ CurOp(p).op \in {"STORE", "STORE_GLOBAL"}

\* C23: wherever a thread is about to write memory, for every addr and v,
\* STORE_GLOBAL addr, v does what STORE (addr with the top bit set), v does:
\* the same write at the same global key with the local memory unchanged, or
\* the same failure when addr is misaligned; wherever a thread is about to
\* read memory, $gmem[addr] yields what $mem[addr with the top bit set]
\* yields; and the global reads and writes of all threads, by either form,
\* meet in one memory keyed by the address with the top bit set.
C23_GlobalForms ==
    /\ \A p \in {t \in TaskIds : AtMemoryRead(t)} : \A addr \in Word :
          LET state == tasks[p].state
              g == get(tasks[p].id, state, GlobalMemory(Literal(addr)))
              m == get(tasks[p].id, state, Memory(Literal(TopBitSet(addr))))
          IN  /\ g = m
              /\ IsOk(g) <=> addr % WORD_SIZE = 0
              /\ IsOk(g) => g.val = MemoryGet(global_memory, TopBitSet(addr))
    /\ \A p \in {t \in TaskIds : AtMemoryWrite(t)} : \A addr \in Word :
          \A v \in StoredValues :
             LET state == tasks[p].state
                 sg == execute_body("STORE_GLOBAL", <<addr, v>>, state)
                 st == execute_body("STORE", <<TopBitSet(addr), v>>, state)
             IN  /\ sg = st
                 /\ sg.state = state
                 /\ IF addr % WORD_SIZE = 0
                    THEN /\ sg.end = NoResult
                         /\ sg.memory = MemoryInsert(global_memory,
                                                      TopBitSet(addr), v)
                    ELSE /\ sg.end = Err(ErrMisaligned)
                         /\ sg.memory = global_memory
    /\ \A i \in DOMAIN write_log : write_log[i].addr = TopBitSet(write_log[i].addr)
    /\ \A t \in TaskIds :
          last_read[t].some => last_read[t].addr = TopBitSet(last_read[t].addr)

\* A value stored with STORE_GLOBAL by one thread and with STORE by another
\* has been read back with $gmem and with LOAD.
C23_Witness ==
    /\ IsProgram(ProgGlobal)
    /\ Len(write_log) = 4
    /\ write_log[2] = [task |-> 2, addr |-> GlobalAddr(0), val |-> 12]
    /\ write_log[3] = [task |-> 2, addr |-> GlobalAddr(8), val |-> 12]
    /\ write_log[4] = [task |-> 2, addr |-> GlobalAddr(0), val |-> 13]
    /\ last_read[1].some
    /\ last_read[1].addr = GlobalAddr(0)
    /\ last_read[1].val = 13


\* The Task is about to execute Jump(flags, target) with the target at hand:
\* given in the opcode, or on the stack to be popped.
AtJump ==
    /\ vm_execution.kind = "Running"
    /\ vm_task.program_counter < Len(vm_bytecode)
    /\ vm_bytecode[vm_task.program_counter + 1].code = "Jump"
    /\ LET target == vm_bytecode[vm_task.program_counter + 1].arg.target
       IN  target.some \/ Len(vm_task.stack) >= 1

\* C24: Jump(flags, target) is taken exactly when every asserted flag's
\* condition holds (ZERO: the stack top is 0; FORK: the task's forked flag):
\* with no flag it is always taken, also on an empty stack; with ZERO on an
\* empty stack the result is PeekFromEmptyStack; a taken jump sets the
\* program counter to the target, a jump not taken leaves it at the next
\* opcode.
C24_JumpTaken ==
    [][AtJump =>
        LET arg == vm_bytecode[vm_task.program_counter + 1].arg
            tg == take_target([vm_task EXCEPT !.program_counter = @ + 1],
                              arg.target)
            stack == tg.task.stack
            holds ==
                /\ (ZERO \in arg.flags => stack[Len(stack)] = 0)
                /\ (FORK \in arg.flags => vm_task.forked)
        IN  IF ZERO \in arg.flags /\ Len(stack) = 0
            THEN vm_execution' = [kind |-> "Err", out |-> PeekFromEmptyStack]
            ELSE /\ vm_execution' = VmRunning
                 /\ vm_task'.stack = stack
                 /\ vm_task'.program_counter =
                       IF holds THEN as_usize(tg.value)
                       ELSE vm_task.program_counter + 1]_vars

\* The run is Bury(k), Dredge(k) on a stack of length n >= 1, 0 <= k <= n - 1.
BuryDredge(k) ==
    /\ vm_bytecode = <<OpBury(k), OpDredge(k)>>
    /\ Len(vm_given.stack) >= 1
    /\ k <= Len(vm_given.stack) - 1

\* C25: for every stack of length n >= 1 and every 0 <= k <= n - 1, Bury(k)
\* puts the popped top where exactly k elements lie above it (the others keep
\* their order), and Dredge(k) after it removes the element with exactly k
\* above it and pushes it, so the stack is exactly as it was given; neither
\* opcode fails.
C25_BuryDredgeInverse ==
    \A k \in 0 .. VmMaxStack :
        BuryDredge(k) =>
            LET n == Len(vm_given.stack)
            IN  /\ vm_execution.kind \in {"Running", "Ok"}
                /\ vm_task.program_counter = 1 =>
                      /\ Len(vm_task.stack) = n
                      /\ vm_task.stack[n - k] = vm_given.stack[n]
                      /\ RemoveAt(vm_task.stack, n - k)
                            = SubSeq(vm_given.stack, 1, n - 1)
                /\ vm_task.program_counter = 2 =>
                      vm_task.stack = vm_given.stack

\* Bury(1), Dredge(1) has run on [-1, 0, 1] and the stack is [-1, 0, 1] again.
C25_Witness ==
    /\ BuryDredge(1)
    /\ vm_given.stack = <<0 - 1, 0, 1>>
    /\ vm_task.program_counter = 2
    /\ vm_task.stack = <<0 - 1, 0, 1>>
    /\ vm_execution = VmRunning

\* C26: the process result is the root thread's result alone: once the root
\* has yielded Exit(code) or Finish(value) and the host's execute has
\* returned, it has returned code or value, whatever the other threads have
\* done or are still doing, and nothing changes the result afterwards.
C26_RootResultAlone ==
    [][/\ \A p \in DOMAIN tasks' :
             (/\ tasks'[p].parent = 0
              /\ tasks'[p].pc = "done"
              /\ tasks'[p].result.kind \in {"Exit", "Finish"}
              /\ host'.pc = "done")
               => host'.result = HostOk(tasks'[p].result.val)
       /\ host.pc = "done" => host' = host]_vars

\* C27: the instruction pointer of every thread is between 0 and the number
\* of opcodes inclusive, and it becomes the number of opcodes only by the
\* fetch of the last opcode, never by JUMP, JUMP_EQ or FORK: those fail on a
\* target equal to the number of opcodes (a label after the last opcode),
\* and a forked thread starts below it; a fetch at the number of opcodes ends
\* the thread with Exit(0).
C27_PointerRange ==
    [][\A p \in DOMAIN tasks' :
        LET ip == tasks'[p].state.instruction_pointer
        IN  /\ ip \in 0 .. Len(ops)
            /\ p \notin DOMAIN tasks => ip < Len(ops)
            /\ p \in DOMAIN tasks =>
                  /\ (ip = Len(ops) /\ tasks[p].state.instruction_pointer # ip)
                        => /\ tasks[p].pc = "fetch"
                           /\ tasks[p].state.instruction_pointer = Len(ops) - 1
                  /\ (\/ BodyStep(p, "JUMP") /\ tasks[p].vals[1] = Len(ops)
                      \/ BodyStep(p, "FORK") /\ tasks[p].vals[1] = Len(ops)
                      \/ /\ BodyStep(p, "JUMP_EQ")
                         /\ tasks[p].vals[1] = tasks[p].vals[2]
                         /\ tasks[p].vals[3] = Len(ops))
                        => FailsJump(p)
                  /\ (/\ tasks[p].pc = "fetch"
                      /\ tasks[p].state.instruction_pointer = Len(ops)
                      /\ tasks'[p] # tasks[p])
                        => /\ tasks'[p].pc = "done"
                           /\ tasks'[p].result = Exit(0)
    ]_vars

\* The child's JUMP to the label after the last opcode has failed, and the
\* root has run past the last opcode to the same position and ended Exit(0).
C27_Witness ==
    /\ IsProgram(ProgLabelEnd)
    /\ \E r \in TaskIds : \E c \in TaskIds :
          /\ tasks[r].parent = 0
          /\ tasks[r].state.instruction_pointer = Len(ops)
          /\ tasks[r].result = Exit(0)
          /\ tasks[c].parent = r
          /\ tasks[c].result = Err(ErrJump)
          /\ CurOp(c).op = "JUMP"
          /\ tasks[c].vals = <<Len(ops)>>
          /\ tasks[c].state.instruction_pointer = 3

\* The writes that add 1: every global write after the first.
Increments == {i \in DOMAIN write_log : i > 1}

\* C28: two threads each read global address 0, add 1 and write the result
\* back, starting from 5.  Each read and each write is atomic by itself and
\* nothing is held from a read to the write after it: every read returns 5 or
\* 6, every increment writes 6 or 7, and once both have written the value is
\* 6 or 7, which is what the process returns.
C28_LostUpdate ==
    IsProgram(ProgLostUpdate) =>
        /\ \A i \in Increments :
              /\ write_log[i].addr = GlobalAddr(0)
              /\ write_log[i].val \in {6, 7}
        /\ \A p \in TaskIds :
              last_read[p].some =>
                 /\ last_read[p].addr = GlobalAddr(0)
                 /\ last_read[p].val \in {5, 6, 7}
        /\ Cardinality(Increments) = 2 =>
              global_get(global_memory, GlobalAddr(0)) \in {6, 7}
        /\ host.pc = "done" =>
              /\ Cardinality(Increments) = 2
              /\ host.result \in {HostOk(6), HostOk(7)}

\* A lost update: both threads read 5 before either wrote, both wrote 6, and
\* the process returned 6.
C28_Witness ==
    /\ IsProgram(ProgLostUpdate)
    /\ Len(write_log) = 3
    /\ write_log[2].val = 6
    /\ write_log[3].val = 6
    /\ write_log[2].task # write_log[3].task
    /\ host.pc = "done"
    /\ host.result = HostOk(6)

\* Every JOIN a thread has made so far was given the handle of a thread that
\* the joiner itself forked: it targeted a child of its own, not yet joined.
JoinsOwnChild ==
    \A i \in DOMAIN join_log :
        join_log[i].by # 0 =>
            /\ join_log[i].handle # 0
            /\ tasks[join_log[i].handle].parent = join_log[i].by

\* Thread p is inside a JOIN.
Joining(p) ==
    /\ p \in TaskIds
    /\ \/ tasks[p].pc = "join_await"
       \/ tasks[p].pc = "body" /\ CurOp(p).op = "JOIN"

RootYielded == \E p \in TaskIds : tasks[p].parent = 0 /\ tasks[p].pc = "done"

\* The root has yielded, the host's execute has returned and no thread is
\* inside a JOIN.
Settled ==
    /\ RootYielded
    /\ host.pc = "done"
    /\ \A p \in TaskIds : ~Joining(p)

\* C29: under fair scheduling, in a process all of whose JOINs target a
\* thread the joiner forked and has not joined yet (no program here loops),
\* every JOIN eventually returns, the root thread eventually yields a result
\* and the host's execute eventually returns: from some point on the root has
\* yielded, the host has returned and no thread is inside a JOIN.
C29_Termination == <>[](~JoinsOwnChild \/ Settled)

\* Nested joins have all returned: the grandchild's 3 has come up through two
\* JOINs of own children to the root, and the host has returned it.
C29_Witness ==
    /\ IsProgram(ProgNested)
    /\ JoinsOwnChild
    /\ Len(join_log) = 3
    /\ \A p \in TaskIds : tasks[p].pc = "done"
    /\ Len(tasks) = 3
    /\ host.pc = "done"
    /\ host.result = HostOk(3)

====
